---------------------------- MODULE Spec2Model ----------------------------
(***************************************************************************)
(* FarmBot (GIS_AGENT): the analysis aggregator get_analysis_data, the     *)
(* report synthesizer generate_pdf_report and the chat message handler     *)
(* handle_message, as state machines over Python values.                   *)
(*                                                                         *)
(* Python values whose type the code tests with isinstance are tagged:     *)
(*   NoneV, Num(n), Str(s), Dict(d), List(xs).                             *)
(* A dict is a TLA+ function with a string domain; the empty dict is <<>>. *)
(* A mapping whose insertion order matters (the aggregator's result) is a  *)
(* sequence of [key, val] items with distinct keys.                        *)
(* Index values (NDVI, NDMI) are in hundredths, coordinates in tenths of a *)
(* degree.                                                                 *)
(***************************************************************************)
EXTENDS Integers, Sequences, FiniteSets, TLC

VARIABLES
    hdl,    \* per request: the state of handle_message
    agg,    \* per request: the state of a get_analysis_data call
    rep,    \* per request: the state of a generate_pdf_report call
    files,  \* the files of tempfile.gettempdir(): path -> who wrote it last
    call    \* a direct call of one of the pure functions: arguments, result

vars == <<hdl, agg, rep, files, call>>

\* No direct call of a pure function.
NoCall == [fn |-> "none", pc |-> "idle", args |-> <<>>, ret |-> <<>>]

\* The requests (user messages, or direct calls) that may be in progress.
Req == {"r1", "r2"}

\* The longest coordinate list and the longest report input mapping drawn.
MaxPoints == 2

-----------------------------------------------------------------------------
(* Python values *)

NoneV == [t |-> "none"]
List(xs) == [t |-> "list", d |-> xs]
Num(n) == [t |-> "num", n |-> n]
Str(s) == [t |-> "str", s |-> s]
Dict(d) == [t |-> "dict", d |-> d]

IsDict(v) == v.t = "dict"
IsNumber(v) == v.t = "num"

\* d.get(k, default)
Get(d, k, default) == IF k \in DOMAIN d THEN d[k] ELSE default

\* m[k] = v on an insertion-ordered mapping
RECURSIVE KeyIndex(_, _, _)
KeyIndex(m, k, j) ==
    IF j > Len(m) THEN 0
    ELSE IF m[j].key = k THEN j
    ELSE KeyIndex(m, k, j + 1)

SetItem(m, k, v) ==
    LET j == KeyIndex(m, k, 1)
    IN  IF j = 0 THEN Append(m, [key |-> k, val |-> v])
        ELSE [m EXCEPT ![j] = [key |-> k, val |-> v]]

HasKey(m, k) == KeyIndex(m, k, 1) # 0

\* f"point_{i}"
PointKey(i) == "point_" \o ToString(i)

-----------------------------------------------------------------------------
(* utils/helpers.py *)

\* validate_coordinates with the boundary values left out.
validate_coordinates_Exclusive(lat, lon) ==
    (235 < lat /\ lat < 370) /\ (600 < lon /\ lon < 770)

\* lines 16-18
validate_coordinates(lat, lon) ==
    (235 <= lat /\ lat <= 370) /\ (600 <= lon /\ lon <= 770)

UnavailableWeather(conditions) ==
    [temperature |-> Str("N/A"), humidity |-> Str("N/A"),
     wind_speed |-> Str("N/A"), conditions |-> conditions, rain |-> Num(0)]

format_weather_data(weather_data) ==
    IF ~IsDict(weather_data) THEN UnavailableWeather("Unknown")
    ELSE IF "error" \in DOMAIN weather_data.d
         THEN \* raise ValueError(...), caught by the function's own except
              UnavailableWeather("Error: " \o weather_data.d.error)
    ELSE [temperature |-> Get(weather_data.d, "temperature", Str("N/A")),
          humidity    |-> Get(weather_data.d, "humidity", Str("N/A")),
          wind_speed  |-> Get(weather_data.d, "wind_speed", Str("N/A")),
          conditions  |-> Get(weather_data.d, "conditions", "Unknown"),
          rain        |-> Get(weather_data.d, "rain", Num(0))]

-----------------------------------------------------------------------------
(* The external adapters, as the outcomes a call can have *)

Return(v) == [kind |-> "return", val |-> v]
Raise(msg) == [kind |-> "raise", msg |-> msg]

\* WeatherAPI.get_weather: a reading, or one of its {error: ...} values.
WeatherReading ==
    [temperature |-> Num(38), humidity |-> Num(40), conditions |-> "Sunny",
     wind_speed |-> Num(12), rain |-> Num(0), timestamp |-> "2024-06-01 10:00"]

get_weather ==
    { Dict(WeatherReading),
      Dict([error |-> "Weather API key not configured"]) }

\* What the call site in get_analysis_data provides for: a returned dict, a
\* returned value that is no dict, an exception.
WeatherOutcomes ==
    {Return(v) : v \in get_weather} \cup {Return(NoneV), Raise("timeout")}

\* ee.Geometry.Point(lon, lat).buffer(1000)
GeometryOutcomes == {Return(NoneV), Raise("Earth Engine client library not initialized")}

\* ee.ImageCollection(...).filterBounds(...).filterDate(...).filter(...).median()
QueryOutcomes == {Return(NoneV), Raise("Collection.filterDate: invalid date")}

\* ndvi.reduceRegion(...).get('NDVI').getInfo(): a float, None, or an error
NdviOutcomes == {Return(Num(80)), Return(NoneV),
                 Raise("Image.normalizedDifference: no band named B8")}

\* ndmi.reduceRegion(...).get('NDMI').getInfo()
NdmiOutcomes == {Return(Num(25)), Return(NoneV),
                 Raise("Computation timed out")}

-----------------------------------------------------------------------------
(* services/analysis.py: FarmBotAnalyzer._assess_crop_health *)

\* _assess_crop_health with the boundary values in the upper bracket.
_assess_crop_health_Inclusive(ndvi_value) ==
    IF ~IsNumber(ndvi_value) THEN "Unknown"
    ELSE IF ndvi_value.n >= 70 THEN "Excellent"
    ELSE IF ndvi_value.n >= 50 THEN "Good"
    ELSE IF ndvi_value.n >= 30 THEN "Moderate"
    ELSE "Poor"

\* lines 182-191
_assess_crop_health(ndvi_value) ==
    IF ~IsNumber(ndvi_value) THEN "Unknown"
    ELSE IF ndvi_value.n > 70 THEN "Excellent"
    ELSE IF ndvi_value.n > 50 THEN "Good"
    ELSE IF ndvi_value.n > 30 THEN "Moderate"
    ELSE "Poor"

-----------------------------------------------------------------------------
(* services/analysis.py: FarmBotAnalyzer.get_analysis_data *)

AnalysisTypes ==
    {"full", "ndvi_only", "soil_moisture", "temp_only", "crop_health", "pest_risk"}

NoDateRange == [t |-> "none"]
DateRange(s, e) == [t |-> "pair", s |-> s, e |-> e]

\* [now - 90 days, now], both strftime('%Y-%m-%d')
DefaultDateRange == DateRange("today-90d", "today")

\* A call not made.
AggIdle ==
    [pc |-> "idle", coords |-> <<>>, date_range |-> NoDateRange,
     analysis_type |-> "full", i |-> 0, results |-> <<>>,
     weather_data |-> NoneV, point_result |-> <<>>,
     ret |-> NoneV, exc |-> "", calls |-> <<>>, obs |-> <<>>]

\* get_analysis_data(coords, date_range, analysis_type) has been called.
AggCalled(coords, date_range, analysis_type) ==
    [AggIdle EXCEPT !.pc = "entry", !.coords = coords,
                    !.date_range = date_range, !.analysis_type = analysis_type]

\* What the adapters answered for one point, NotAsked where none was asked.
NotAsked == [kind |-> "skip"]
NoObs == [geometry |-> NotAsked, weather |-> NotAsked, query |-> NotAsked,
          ndvi |-> NotAsked, ndmi |-> NotAsked]

Called(a, adapter) == Append(a.calls, [adapter |-> adapter, i |-> a.i])
Observed(a, step, o) ==
    [a.obs EXCEPT ![a.i + 1] = [@ EXCEPT ![step] = o]]

\* NextPoint with the keys numbered from 1.
NextPoint_KeyFromOne(a, rec) ==
    [a EXCEPT !.results = SetItem(a.results, PointKey(a.i + 1), Dict(rec)),
              !.i = a.i + 1, !.pc = "loop",
              !.weather_data = NoneV, !.point_result = <<>>]

\* The end of one iteration of the for loop, with results[f"point_{i}"] = rec.
NextPoint(a, rec) ==
    [a EXCEPT !.results = SetItem(a.results, PointKey(a.i), Dict(rec)),
              !.i = a.i + 1, !.pc = "loop",
              !.weather_data = NoneV, !.point_result = <<>>]

\* PointFailed adding the error to the fields gathered so far.
PointFailed_KeepsPartial(a, msg) ==
    NextPoint(a, [k \in DOMAIN a.point_result \cup {"error"} |->
                    IF k = "error" THEN msg ELSE a.point_result[k]])

\* except Exception as e: results[f"point_{i}"] = {"error": str(e)}
PointFailed(a, msg) == NextPoint(a, [error |-> msg])

\* AggEntry without the check of the empty list.
AggEntry_NoEmptyCheck(r) ==
    /\ agg[r].pc = "entry"
    /\ agg' = [agg EXCEPT ![r] =
         [@ EXCEPT !.pc = "loop", !.i = 0, !.results = <<>>,
                   !.date_range = IF @.t = "none" THEN DefaultDateRange ELSE @]]
    /\ UNCHANGED <<hdl, rep, files, call>>

\* lines 110-118: the empty list, the default date range
AggEntry(r) ==
    /\ agg[r].pc = "entry"
    /\ agg' = [agg EXCEPT ![r] =
         IF @.coords = <<>>
         THEN [@ EXCEPT !.pc = "returned",
                        !.ret = Dict(<<[key |-> "error", val |-> Str("No coordinates provided")]>>)]
         ELSE [@ EXCEPT !.pc = "loop", !.i = 0, !.results = <<>>,
                        !.date_range = IF @.t = "none" THEN DefaultDateRange ELSE @]]
    /\ UNCHANGED <<hdl, rep, files, call>>

\* AggLoop leaving the loop (break) at a point outside the region.
AggLoop_BreakAtInvalid(r) ==
    /\ agg[r].pc = "loop"
    /\ agg[r].i < Len(agg[r].coords)
    /\ LET a == [agg[r] EXCEPT !.obs = Append(@, NoObs)]
           lat == a.coords[a.i + 1][1]
           lon == a.coords[a.i + 1][2]
       IN  agg' = [agg EXCEPT ![r] =
             IF ~validate_coordinates(lat, lon)
             THEN [NextPoint(a, [error |-> "Coordinates outside Pakistan"])
                     EXCEPT !.i = Len(a.coords)]
             ELSE [a EXCEPT !.pc = "geometry"]]
    /\ UNCHANGED <<hdl, rep, files, call>>

\* lines 120-123: the next point, and its region validation
AggLoop(r) ==
    /\ agg[r].pc = "loop"
    /\ agg[r].i < Len(agg[r].coords)
    /\ LET a == [agg[r] EXCEPT !.obs = Append(@, NoObs)]
           lat == a.coords[a.i + 1][1]
           lon == a.coords[a.i + 1][2]
       IN  agg' = [agg EXCEPT ![r] =
             IF ~validate_coordinates(lat, lon)
             THEN NextPoint(a, [error |-> "Coordinates outside Pakistan"])
             ELSE [a EXCEPT !.pc = "geometry"]]
    /\ UNCHANGED <<hdl, rep, files, call>>

\* lines 125-126, outside the try: an exception leaves get_analysis_data
AggGeometry(r) ==
    /\ agg[r].pc = "geometry"
    /\ \E g \in GeometryOutcomes :
         LET a == [agg[r] EXCEPT !.obs = Observed(agg[r], "geometry", g)]
         IN  agg' = [agg EXCEPT ![r] =
               IF g.kind = "raise"
               THEN [a EXCEPT !.pc = "raised", !.exc = g.msg]
               ELSE [a EXCEPT !.pc = "weather"]]
    /\ UNCHANGED <<hdl, rep, files, call>>

\* AggWeather without the inner try/except: the exception reaches the
\* point's except clause.
AggWeather_NoInnerTry(r) ==
    /\ agg[r].pc = "weather"
    /\ \E w \in WeatherOutcomes :
         LET a == [agg[r] EXCEPT !.calls = Called(agg[r], "weather"),
                                 !.obs = Observed(agg[r], "weather", w)]
         IN  agg' = [agg EXCEPT ![r] =
               IF w.kind = "raise"
               THEN PointFailed(a, w.msg)
               ELSE [a EXCEPT !.pc = "query",
                              !.weather_data = IF ~IsDict(w.val) THEN Dict(<<>>) ELSE w.val]]
    /\ UNCHANGED <<hdl, rep, files, call>>

\* lines 130-136: the weather lookup and its own try/except
AggWeather(r) ==
    /\ agg[r].pc = "weather"
    /\ \E w \in WeatherOutcomes :
         LET a == [agg[r] EXCEPT !.calls = Called(agg[r], "weather"),
                                 !.obs = Observed(agg[r], "weather", w)]
         IN  agg' = [agg EXCEPT ![r] =
               [a EXCEPT !.pc = "query",
                         !.weather_data =
                            IF w.kind = "raise"
                            THEN Dict([error |-> "Weather API error: " \o w.msg])
                            ELSE IF ~IsDict(w.val) THEN Dict(<<>>)
                            ELSE w.val]]
    /\ UNCHANGED <<hdl, rep, files, call>>

\* lines 139-151: the image collection, its composite, the point's record
AggQuery(r) ==
    /\ agg[r].pc = "query"
    /\ \E q \in QueryOutcomes :
         LET a == [agg[r] EXCEPT !.calls = Called(agg[r], "remote_sensing"),
                                 !.obs = Observed(agg[r], "query", q)]
             lat == a.coords[a.i + 1][1]
             lon == a.coords[a.i + 1][2]
         IN  agg' = [agg EXCEPT ![r] =
               IF q.kind = "raise"
               THEN PointFailed(a, q.msg)
               ELSE [a EXCEPT !.pc = "ndvi",
                              !.point_result =
                                 [coordinates |-> <<lat, lon>>,
                                  analysis_period |-> a.date_range.s \o " to " \o a.date_range.e,
                                  weather |-> IF IsDict(a.weather_data)
                                              THEN format_weather_data(a.weather_data)
                                              ELSE <<>>]]]
    /\ UNCHANGED <<hdl, rep, files, call>>

\* AggNdvi computing the vegetation index for every analysis type.
AggNdvi_EveryType(r) ==
    /\ agg[r].pc = "ndvi"
    /\ \E o \in NdviOutcomes :
         LET a == [agg[r] EXCEPT !.calls = Called(agg[r], "remote_sensing"),
                                 !.obs = Observed(agg[r], "ndvi", o)]
         IN  agg' = [agg EXCEPT ![r] =
               IF o.kind = "raise"
               THEN PointFailed(a, o.msg)
               ELSE [a EXCEPT !.pc = "ndmi",
                              !.point_result =
                                 [k \in DOMAIN @ \cup {"ndvi", "crop_health"} |->
                                    IF k = "ndvi" THEN o.val
                                    ELSE IF k = "crop_health"
                                         THEN _assess_crop_health(o.val)
                                    ELSE @[k]]]]
    /\ UNCHANGED <<hdl, rep, files, call>>

\* lines 155-163: the vegetation index and its class
AggNdvi(r) ==
    /\ agg[r].pc = "ndvi"
    /\ IF agg[r].analysis_type \in {"full", "ndvi_only", "crop_health"}
       THEN \E o \in NdviOutcomes :
              LET a == [agg[r] EXCEPT !.calls = Called(agg[r], "remote_sensing"),
                                      !.obs = Observed(agg[r], "ndvi", o)]
              IN  agg' = [agg EXCEPT ![r] =
                    IF o.kind = "raise"
                    THEN PointFailed(a, o.msg)
                    ELSE [a EXCEPT !.pc = "ndmi",
                                   !.point_result =
                                      [k \in DOMAIN @ \cup {"ndvi", "crop_health"} |->
                                         IF k = "ndvi" THEN o.val
                                         ELSE IF k = "crop_health"
                                              THEN _assess_crop_health(o.val)
                                         ELSE @[k]]]]
       ELSE agg' = [agg EXCEPT ![r].pc = "ndmi"]
    /\ UNCHANGED <<hdl, rep, files, call>>

\* lines 166-175: the moisture index, then results[f"point_{i}"] = point_result
AggNdmi(r) ==
    /\ agg[r].pc = "ndmi"
    /\ IF agg[r].analysis_type \in {"full", "soil_moisture"}
       THEN \E o \in NdmiOutcomes :
              LET a == [agg[r] EXCEPT !.calls = Called(agg[r], "remote_sensing"),
                                      !.obs = Observed(agg[r], "ndmi", o)]
              IN  agg' = [agg EXCEPT ![r] =
                    IF o.kind = "raise"
                    THEN PointFailed(a, o.msg)
                    ELSE NextPoint(a, [k \in DOMAIN a.point_result \cup {"soil_moisture"} |->
                                         IF k = "soil_moisture" THEN o.val
                                         ELSE a.point_result[k]])]
       ELSE agg' = [agg EXCEPT ![r] = NextPoint(@, @.point_result)]
    /\ UNCHANGED <<hdl, rep, files, call>>

\* line 180: return results
AggReturn(r) ==
    /\ agg[r].pc = "loop"
    /\ agg[r].i = Len(agg[r].coords)
    /\ agg' = [agg EXCEPT ![r] = [@ EXCEPT !.pc = "returned", !.ret = Dict(agg[r].results)]]
    /\ UNCHANGED <<hdl, rep, files, call>>

AggNext ==
    \E r \in Req :
        \/ AggEntry(r)
        \/ AggLoop(r)
        \/ AggGeometry(r)
        \/ AggWeather(r)
        \/ AggQuery(r)
        \/ AggNdvi(r)
        \/ AggNdmi(r)
        \/ AggReturn(r)

-----------------------------------------------------------------------------
(* services/government.py: GovernmentSchemes *)

SCHEMES ==
    << [key |-> "Kissan Package",
        val |-> [description |-> "Subsidies on fertilizers, seeds, and agricultural machinery",
                 urdu |-> "urdu(Kissan Package)"]],
       [key |-> "Tubewell Subsidy",
        val |-> [description |-> "Financial assistance for installing tubewells",
                 urdu |-> "urdu(Tubewell Subsidy)"]],
       [key |-> "Solar Pump Scheme",
        val |-> [description |-> "Subsidy for solar-powered water pumps",
                 urdu |-> "urdu(Solar Pump Scheme)"]] >>

\* get_scheme_info(scheme_name, language); scheme_name is NoneV or Str(name)
get_scheme_info(scheme_name, language) ==
    IF scheme_name # NoneV
    THEN IF ~HasKey(SCHEMES, scheme_name.s)
         THEN Dict(<<[key |-> "error", val |-> "Scheme not found"]>>)
         ELSE Dict(<<[key |-> "name", val |-> scheme_name.s],
                     [key |-> "description",
                      val |-> IF language = "urdu"
                              THEN SCHEMES[KeyIndex(SCHEMES, scheme_name.s, 1)].val.urdu
                              ELSE SCHEMES[KeyIndex(SCHEMES, scheme_name.s, 1)].val.description]>>)
    ELSE \* all schemes: a dict keyed by scheme name, in either language
         IF language = "urdu"
         THEN Dict([j \in 1..Len(SCHEMES) |->
                      [key |-> SCHEMES[j].key,
                       val |-> [description |-> SCHEMES[j].val.urdu]]])
         ELSE Dict(SCHEMES)

-----------------------------------------------------------------------------
(* services/analysis.py: FarmBotAnalyzer.generate_pdf_report *)

\* One flowable of the document (Spacers are left out).
El(kind, key, text) == [kind |-> kind, key |-> key, text |-> text]

\* str() of a value in an f-string
StrOf(v) ==
    IF v.t = "num" THEN ToString(v.n)
    ELSE IF v.t = "str" THEN v.s
    ELSE "None"

\* s.capitalize(), as a term over s
capitalize(s) == "capitalize(" \o s \o ")"

\* os.path.join(tempfile.gettempdir(), name)
TempPath(name) == "/tmp/" \o name

ReportPath == TempPath("farmbot_analysis_report.pdf")
NdviChartPath(point_key) == TempPath("ndvi_chart_" \o point_key \o ".png")
MoistureChartPath(point_key) == TempPath("moisture_chart_" \o point_key \o ".png")

\* lines 212-220: the first pass over the entries
RECURSIVE ErrorMessages(_, _)
ErrorMessages(items, j) ==
    IF j > Len(items) THEN <<>>
    ELSE (IF ~IsDict(items[j].val)
          THEN <<"Invalid data format for " \o items[j].key>>
          ELSE <<>>) \o ErrorMessages(items, j + 1)

HasAnyData(items) == \E j \in 1..Len(items) : IsDict(items[j].val)
HasValidData(items) ==
    \E j \in 1..Len(items) : IsDict(items[j].val) /\ "error" \notin DOMAIN items[j].val.d

\* add_footer with the two statuses exchanged.
add_footer_Exchanged(has_valid_data) == IF has_valid_data THEN "Partial" ELSE "Complete"

\* lines 557-563: the status add_footer draws on every page
add_footer(has_valid_data) == IF ~has_valid_data THEN "Partial" ELSE "Complete"

\* lines 294-304: the items of the issues list
RECURSIVE MessageItems(_, _)
MessageItems(msgs, j) ==
    IF j > Len(msgs) THEN <<>>
    ELSE <<El("issue", "", msgs[j])>> \o MessageItems(msgs, j + 1)

RECURSIVE FailedPointItems(_, _)
FailedPointItems(items, j) ==
    IF j > Len(items) THEN <<>>
    ELSE (IF IsDict(items[j].val) /\ "error" \in DOMAIN items[j].val.d
          THEN <<El("issue", items[j].key,
                    (IF "coordinates" \in DOMAIN items[j].val.d
                     THEN ToString(items[j].val.d.coordinates)
                     ELSE "Unknown location") \o ": " \o items[j].val.d.error)>>
          ELSE <<>>) \o FailedPointItems(items, j + 1)

\* lines 272-312: the cover and the error summary
CoverElements(items, has_valid_data, error_messages) ==
    <<El("title", "", "FarmBot Analysis Report")>>
    \o (IF ~has_valid_data
        THEN <<El("warning", "", "WARNING: Limited Report Data Available")>>
        ELSE <<>>)
    \o <<El("generated_on", "", "Generated on: now")>>
    \o (IF error_messages # <<>> \/ ~has_valid_data
        THEN <<El("issues_heading", "", "Analysis Issues Encountered")>>
             \o (IF error_messages # <<>>
                 THEN MessageItems(error_messages, 1)
                 ELSE FailedPointItems(items, 1))
             \o <<El("issues_note", "", "Note: Some analyses may be incomplete due to the above issues."),
                  El("page_break", "", "")>>
        ELSE <<>>)

\* lines 327-376: the NDVI gauge and its interpretation
NdviInterpretation(health_status) ==
    CASE health_status = "Excellent" -> "Crops are very healthy with excellent growth"
      [] health_status = "Good" -> "Crops are healthy but could improve"
      [] health_status = "Moderate" -> "Crops show some issues needing attention"
      [] health_status = "Poor" -> "Crops are in poor condition, need immediate action"
      [] OTHER -> "NDVI analysis not available"

HasNdvi(pd) == "ndvi" \in DOMAIN pd /\ IsNumber(pd.ndvi)
HasMoisture(pd) == "soil_moisture" \in DOMAIN pd /\ IsNumber(pd.soil_moisture)

NdviSection(key, pd) ==
    IF HasNdvi(pd)
    THEN <<El("ndvi_heading", key, "Crop Health Analysis (NDVI)"),
           El("ndvi_chart", key, NdviChartPath(key)),
           El("ndvi_interpretation", key,
              NdviInterpretation(Get(pd, "crop_health", "Unknown")))>>
    ELSE <<>>

\* line 386: min(max(moisture_value * 100, 0), 100), the index in hundredths
MoisturePercent(moisture_value) ==
    LET x == IF moisture_value.n > 0 THEN moisture_value.n ELSE 0
    IN  IF x < 100 THEN x ELSE 100

\* lines 417-424
MoistureText(moisture_percent) ==
    IF moisture_percent < 30 THEN "Soil is too dry. Immediate irrigation needed."
    ELSE IF moisture_percent < 50 THEN "Soil is somewhat dry. Consider irrigation soon."
    ELSE IF moisture_percent < 70 THEN "Soil moisture is at optimal levels."
    ELSE "Soil is too wet. Reduce irrigation to prevent waterlogging."

\* lines 378-427: the moisture gauge and its recommendation
MoistureSection(key, pd) ==
    IF HasMoisture(pd)
    THEN <<El("moisture_heading", key, "Soil Moisture Analysis"),
           El("moisture_chart", key, MoistureChartPath(key)),
           El("moisture_recommendation", key,
              MoistureText(MoisturePercent(pd.soil_moisture)))>>
    ELSE <<>>

\* lines 429-466: the weather table and the weather impact
WeatherSection(key, pd) ==
    IF "weather" \in DOMAIN pd /\ pd.weather # <<>>
    THEN LET weather == pd.weather
             temp == Get(weather, "temperature", NoneV)
         IN  <<El("weather_heading", key, "Weather Conditions"),
               El("weather_table", key,
                  StrOf(Get(weather, "temperature", Str("N/A"))) \o "C "
                  \o StrOf(Get(weather, "humidity", Str("N/A"))) \o "% "
                  \o StrOf(Get(weather, "wind_speed", Str("N/A"))) \o " km/h "
                  \o capitalize(Get(weather, "conditions", "N/A")) \o " "
                  \o StrOf(Get(weather, "rain", Num(0))) \o "mm")>>
             \o (IF IsNumber(temp)
                 THEN <<El("weather_impact", key,
                           IF temp.n > 35
                           THEN "High temperatures may stress crops. Provide shade and ensure adequate water."
                           ELSE IF temp.n < 10
                           THEN "Low temperatures may damage crops. Consider protective measures."
                           ELSE "Temperatures are in optimal range for most crops.")>>
                 ELSE <<>>)
    ELSE <<>>

\* lines 472-526: the recommendation rules, concatenated
Recommendations(pd) ==
    (IF "crop_health" \in DOMAIN pd
     THEN IF pd.crop_health = "Poor"
          THEN <<"Apply fertilizer urgently", "Check for pests and diseases",
                 "Test soil for nutrient deficiencies", "Increase irrigation if needed">>
          ELSE IF pd.crop_health = "Moderate"
          THEN <<"Apply balanced fertilizer", "Monitor for early signs of pests",
                 "Maintain proper irrigation", "Consider foliar feeding">>
          ELSE IF pd.crop_health = "Good"
          THEN <<"Continue current practices", "Monitor crop health regularly",
                 "Prepare for next growth stage">>
          ELSE <<"Maintain excellent practices", "Document management strategies",
                 "Explore intercropping options">>
     ELSE <<>>)
    \o (IF HasMoisture(pd)
        THEN IF pd.soil_moisture.n < 30
             THEN <<"Increase irrigation frequency immediately">>
             ELSE IF pd.soil_moisture.n > 70
             THEN <<"Reduce irrigation to prevent waterlogging">>
             ELSE <<>>
        ELSE <<>>)
    \o (IF "weather" \in DOMAIN pd
        THEN LET temp == Get(pd.weather, "temperature", NoneV)
                 rain == Get(pd.weather, "rain", Num(0))
             IN  (IF IsNumber(temp) /\ temp.n > 35
                  THEN <<"Use mulch or shade to reduce soil temperature">> ELSE <<>>)
                 \o (IF IsNumber(temp) /\ temp.n < 10
                     THEN <<"Use protective covers for cold protection">> ELSE <<>>)
                 \o (IF IsNumber(rain) /\ rain.n > 10
                     THEN <<"Ensure proper drainage to prevent waterlogging">> ELSE <<>>)
        ELSE <<>>)

RECURSIVE RecommendationItems(_, _, _)
RecommendationItems(key, recs, j) ==
    IF j > Len(recs) THEN <<>>
    ELSE <<El("recommendation", key, recs[j])>> \o RecommendationItems(key, recs, j + 1)

\* lines 468-535
RecommendationSection(key, pd) ==
    <<El("recommendations_heading", key, "Farm Management Recommendations")>>
    \o (IF Recommendations(pd) # <<>>
        THEN RecommendationItems(key, Recommendations(pd), 1)
        ELSE <<El("no_recommendations", key,
                  "No specific recommendations available based on current analysis.")>>)

\* lines 537-548: schemes[:3] when get_scheme_info answers with a list
RECURSIVE SchemeItems(_, _, _)
SchemeItems(key, schemes, j) ==
    IF j > Len(schemes) \/ j > 3 THEN <<>>
    ELSE <<El("scheme", key, schemes[j].name),
           El("scheme_description", key, schemes[j].description)>>
         \o SchemeItems(key, schemes, j + 1)

SchemeSection(key) ==
    LET schemes == get_scheme_info(NoneV, "english")
    IN  <<El("schemes_heading", key, "Applicable Government Schemes")>>
        \o (IF schemes.t = "list" /\ schemes.d # <<>>
            THEN SchemeItems(key, schemes.d, 1)
            ELSE <<El("schemes_contact", key,
                      "Contact local agriculture office for scheme information.")>>)

\* lines 319-554: the section of one successful point
PointSection(items, j) ==
    LET key == items[j].key
        pd == items[j].val.d
    IN  <<El("point_heading", key,
             "Analysis for Location: "
             \o (IF "coordinates" \in DOMAIN pd THEN ToString(pd.coordinates) ELSE "Unknown")),
          El("analysis_period", key,
             "Analysis Period: " \o Get(pd, "analysis_period", "N/A"))>>
        \o NdviSection(key, pd)
        \o MoistureSection(key, pd)
        \o WeatherSection(key, pd)
        \o RecommendationSection(key, pd)
        \o SchemeSection(key)
        \o (IF key # items[Len(items)].key THEN <<El("page_break", key, "")>> ELSE <<>>)

\* plt.savefig(path): the chart files one point's section writes
ChartFiles(r, key, pd) ==
    (IF HasNdvi(pd)
     THEN NdviChartPath(key) :> [by |-> r, value |-> pd.ndvi] ELSE <<>>)
    @@ (IF HasMoisture(pd)
        THEN MoistureChartPath(key) :> [by |-> r, value |-> pd.soil_moisture] ELSE <<>>)

\* A call not made.
RepIdle ==
    [pc |-> "idle", data |-> NoneV, has_valid_data |-> FALSE,
     error_messages |-> <<>>, elements |-> <<>>, k |-> 0, charts |-> {},
     embedded |-> <<>>, status |-> "", exc |-> "", ret |-> NoneV]

\* generate_pdf_report(data) has been called.
RepCalled(data) == [RepIdle EXCEPT !.pc = "entry", !.data = data]

\* RepValidate raising also when no point succeeded.
RepValidate_NeedsValidPoint(r) ==
    /\ rep[r].pc = "entry"
    /\ LET data == rep[r].data
       IN  rep' = [rep EXCEPT ![r] =
             IF ~IsDict(data) \/ data.d = <<>>
             THEN [@ EXCEPT !.pc = "raised",
                            !.exc = "Invalid data format - expected dictionary with analysis results"]
             ELSE IF ~HasValidData(data.d)
             THEN [@ EXCEPT !.pc = "raised",
                            !.exc = "No valid point data structure found in input"]
             ELSE [@ EXCEPT !.pc = "cover",
                            !.has_valid_data = HasValidData(data.d),
                            !.error_messages = ErrorMessages(data.d, 1)]]
    /\ UNCHANGED <<hdl, agg, files, call>>

\* lines 199-223: the input validation
RepValidate(r) ==
    /\ rep[r].pc = "entry"
    /\ LET data == rep[r].data
       IN  rep' = [rep EXCEPT ![r] =
             IF ~IsDict(data) \/ data.d = <<>>
             THEN [@ EXCEPT !.pc = "raised",
                            !.exc = "Invalid data format - expected dictionary with analysis results"]
             ELSE IF ~HasAnyData(data.d)
             THEN [@ EXCEPT !.pc = "raised",
                            !.exc = "No valid point data structure found in input"]
             ELSE [@ EXCEPT !.pc = "cover",
                            !.has_valid_data = HasValidData(data.d),
                            !.error_messages = ErrorMessages(data.d, 1)]]
    /\ UNCHANGED <<hdl, agg, files, call>>

\* lines 225-312: the document, the cover page, the error summary
RepCover(r) ==
    /\ rep[r].pc = "cover"
    /\ rep' = [rep EXCEPT ![r] =
         [@ EXCEPT !.pc = "points", !.k = 1,
                   !.elements = CoverElements(rep[r].data.d, rep[r].has_valid_data,
                                              rep[r].error_messages)]]
    /\ UNCHANGED <<hdl, agg, files, call>>

\* lines 315-554: one iteration of the loop over the points
RepPoint(r) ==
    /\ rep[r].pc = "points"
    /\ rep[r].k <= Len(rep[r].data.d)
    /\ LET items == rep[r].data.d
           j == rep[r].k
           skip == ~IsDict(items[j].val) \/ "error" \in DOMAIN items[j].val.d
           written == IF skip THEN <<>> ELSE ChartFiles(r, items[j].key, items[j].val.d)
       IN  /\ rep' = [rep EXCEPT ![r] =
                 [@ EXCEPT !.k = j + 1,
                           !.charts = @ \cup DOMAIN written,
                           !.elements = IF skip THEN @ ELSE @ \o PointSection(items, j)]]
           /\ files' = written @@ files
    /\ UNCHANGED <<hdl, agg, call>>

\* doc.build: Image(chart_path) reads its file when the document is built
Embedded(elements) ==
    LET charts == {j \in 1..Len(elements) :
                     elements[j].kind \in {"ndvi_chart", "moisture_chart"}}
    IN  [p \in {elements[j].text : j \in charts} |-> files[p]]

\* lines 556-568: the footer, doc.build, return filename
RepBuild(r) ==
    /\ rep[r].pc = "points"
    /\ rep[r].k > Len(rep[r].data.d)
    /\ rep' = [rep EXCEPT ![r] =
         [@ EXCEPT !.pc = "returned",
                   !.status = add_footer(rep[r].has_valid_data),
                   !.embedded = Embedded(rep[r].elements),
                   !.ret = Str(ReportPath)]]
    /\ files' = (ReportPath :> [by |-> r, value |-> NoneV]) @@ files
    /\ UNCHANGED <<hdl, agg, call>>

\* line 566: doc.build cannot write the document (the temporary directory is
\* full or not writable); its OSError leaves generate_pdf_report
RepBuildFails(r) ==
    /\ rep[r].pc = "points"
    /\ rep[r].k > Len(rep[r].data.d)
    /\ rep' = [rep EXCEPT ![r] =
         [@ EXCEPT !.pc = "raised",
                   !.exc = "[Errno 28] No space left on device"]]
    /\ UNCHANGED <<hdl, agg, files, call>>

RepNext ==
    \E r \in Req :
        \/ RepValidate(r)
        \/ RepCover(r)
        \/ RepPoint(r)
        \/ RepBuild(r)

-----------------------------------------------------------------------------
(* services/analysis.py: FarmBotAnalyzer.parse_user_input *)

\* A message text is a str whose content is a sequence of tokens: a word
\* (lower-cased), a "<lat>,<lon>" pair of decimals, or a date-range phrase
\* "from <bound> to <bound>" or "between <bound> and <bound>", with pad
\* whitespace characters around them.
Padded(toks, pad) == [t |-> "str", toks |-> toks, pad |-> pad]
Message(toks) == Padded(toks, 0)
Word(w) == [k |-> "word", w |-> w]
Pair(lat, lon) == [k |-> "pair", lat |-> lat, lon |-> lon]
PhraseOf(opener, a, joiner, b) ==
    [k |-> "range", opener |-> opener, a |-> a, joiner |-> joiner, b |-> b]
Phrase(a, b) == PhraseOf("from", a, "to", b)
IsoDate(y, m, d) == [form |-> "iso", y |-> y, m |-> m, d |-> d]
DayMonth(d, month) == [form |-> "daymonth", d |-> d, month |-> month]

\* s.lower(), as the words of s
lower(s) ==
    CASE s = "Kissan Package" -> <<"kissan", "package">>
      [] s = "Tubewell Subsidy" -> <<"tubewell", "subsidy">>
      [] s = "Solar Pump Scheme" -> <<"solar", "pump", "scheme">>
      [] s = "NDVI" -> <<"ndvi">>
      [] s = "Soil" -> <<"soil">>
      [] s = "URDU" -> <<"urdu">>
      [] OTHER -> <<s>>

\* The terms that occur inside a lower-cased word.
Within(w) ==
    CASE w = "unhealthy" -> {"unhealthy", "health"}
      [] w = "topsoil" -> {"topsoil", "soil"}
      [] OTHER -> {w}

\* words in user_input.lower(): the words occur one after the other
ContainsWords(text, words) ==
    \E j \in 1..Len(text.toks) :
        \A i \in 1..Len(words) :
            /\ j + i - 1 <= Len(text.toks)
            /\ text.toks[j + i - 1].k = "word"
            /\ lower(text.toks[j + i - 1].w) = <<words[i]>>

\* word in user_input.lower(): the word occurs inside one of the words
Contains(text, word) ==
    \E j \in 1..Len(text.toks) :
        /\ text.toks[j].k = "word"
        /\ word \in Within(lower(text.toks[j].w)[1])

ContainsAny(text, words) == \E w \in words : Contains(text, w)

\* lines 25-32
DefaultIntent ==
    [coordinates |-> NoneV, date_range |-> NoDateRange, analysis_type |-> "full",
     language |-> "english", other_instructions |-> <<>>, special_requests |-> <<>>]

\* strftime("%Y-%m-%d")
Pad2(n) == IF n < 10 THEN "0" \o ToString(n) ELSE ToString(n)
IsoText(y, m, d) == ToString(y) \o "-" \o Pad2(m) \o "-" \o Pad2(d)

DaysInMonth(y, m) ==
    IF m = 2
    THEN IF (y % 4 = 0 /\ y % 100 # 0) \/ y % 400 = 0 THEN 29 ELSE 28
    ELSE IF m \in {4, 6, 9, 11} THEN 30 ELSE 31

\* lines 87-102: a matched bound always starts with a digit, so it is read
\* with "%Y-%m-%d"; a ValueError gives None
_parse_date_string(date_str) ==
    IF date_str.form = "iso"
       /\ date_str.y \in 1..9999
       /\ date_str.m \in 1..12
       /\ date_str.d \in 1..DaysInMonth(date_str.y, date_str.m)
    THEN Str(IsoText(date_str.y, date_str.m, date_str.d))
    ELSE NoneV

\* lines 47-54: re.findall of the coordinate pairs
RECURSIVE FindCoords(_, _)
FindCoords(toks, j) ==
    IF j > Len(toks) THEN <<>>
    ELSE (IF toks[j].k = "pair" THEN <<<<toks[j].lat, toks[j].lon>>>> ELSE <<>>)
         \o FindCoords(toks, j + 1)

\* lines 56-66: re.search of the first date-range phrase
RECURSIVE FindRange(_, _)
FindRange(toks, j) ==
    IF j > Len(toks) THEN NoneV
    ELSE IF toks[j].k = "range" THEN toks[j]
    ELSE FindRange(toks, j + 1)

\* ParsedRange keeping the bounds it could parse.
ParsedRange_Partial(toks) ==
    LET dates == FindRange(toks, 1)
    IN  IF dates = NoneV THEN NoDateRange
        ELSE LET start_date == _parse_date_string(dates.a)
                 end_date == _parse_date_string(dates.b)
             IN  IF start_date # NoneV \/ end_date # NoneV
                 THEN DateRange(IF start_date = NoneV THEN "" ELSE start_date.s,
                                IF end_date = NoneV THEN "" ELSE end_date.s)
                 ELSE NoDateRange

\* lines 56-66
ParsedRange(toks) ==
    LET dates == FindRange(toks, 1)
    IN  IF dates = NoneV THEN NoDateRange
        ELSE LET start_date == _parse_date_string(dates.a)
                 end_date == _parse_date_string(dates.b)
             IN  IF start_date # NoneV /\ end_date # NoneV
                 THEN DateRange(start_date.s, end_date.s)
                 ELSE NoDateRange

\* lines 68-83: the first term of the table that occurs in the text
analysis_types ==
    << <<"ndvi", "ndvi_only">>, <<"soil", "soil_moisture">>,
       <<"temperature", "temp_only">>, <<"health", "crop_health">>,
       <<"pest", "pest_risk">> >>

\* FirstType taking the term that comes first in the text.
RECURSIVE FirstType_TextOrder(_, _)
FirstType_TextOrder(text, j) ==
    IF j > Len(text.toks) THEN "full"
    ELSE LET here == {i \in 1..Len(analysis_types) :
                        /\ text.toks[j].k = "word"
                        /\ analysis_types[i][1] \in Within(lower(text.toks[j].w)[1])}
         IN  IF here # {}
             THEN analysis_types[CHOOSE i \in here : \A h \in here : i <= h][2]
             ELSE FirstType_TextOrder(text, j + 1)

RECURSIVE FirstType(_, _)
FirstType(text, j) ==
    IF j > Len(analysis_types) THEN "full"
    ELSE IF Contains(text, analysis_types[j][1]) THEN analysis_types[j][2]
    ELSE FirstType(text, j + 1)

\* line 39: user_input.strip()
strip(text) == [text EXCEPT !.pad = 0]

\* parse_user_input handing None on when the input is not a text.
parse_user_input_NoneOnNonText(user_input) ==
    IF user_input.t # "str" THEN NoneV
    ELSE IF strip(user_input).toks = <<>> THEN DefaultIntent
    ELSE [DefaultIntent EXCEPT
            !.language = IF Contains(user_input, "urdu") THEN "urdu" ELSE @,
            !.coordinates = IF FindCoords(user_input.toks, 1) # <<>>
                            THEN List(FindCoords(user_input.toks, 1)) ELSE @,
            !.date_range = ParsedRange(user_input.toks),
            !.analysis_type = FirstType(user_input, 1)]

\* lines 21-85
parse_user_input(user_input) ==
    IF user_input.t # "str" \/ (user_input.toks = <<>> /\ user_input.pad = 0)
    THEN DefaultIntent
    ELSE IF strip(user_input).toks = <<>> THEN DefaultIntent
    ELSE [DefaultIntent EXCEPT
            !.language = IF Contains(user_input, "urdu") THEN "urdu" ELSE @,
            !.coordinates = IF FindCoords(user_input.toks, 1) # <<>>
                            THEN List(FindCoords(user_input.toks, 1)) ELSE @,
            !.date_range = ParsedRange(user_input.toks),
            !.analysis_type = FirstType(user_input, 1)]

-----------------------------------------------------------------------------
(* main.py: handle_message and the handlers it dispatches to *)

\* A message sent to the user: its kind, the variant of its text (roman or
\* urdu script; english or urdu for the summary), the exception text it
\* quotes and the file attached to it.
Sent(kind, variant, detail, file) ==
    [kind |-> kind, variant |-> variant, detail |-> detail, file |-> file]

\* A handler not started.
HdlIdle ==
    [pc |-> "idle", user_input |-> NoneV, parsed_input |-> DefaultIntent,
     msgs |-> <<>>, processing_msg |-> FALSE, report_file |-> NoneV,
     calls |-> <<>>, exc |-> ""]

\* handle_message(message) has been called.
HdlCalled(text) == [HdlIdle EXCEPT !.pc = "received", !.user_input = text]

\* The script of a message with two variants.
Variant(parsed) == IF parsed.language = "urdu" THEN "urdu" ELSE "roman"

\* truthiness of parsed_input.get("coordinates")
HasCoordinates(parsed) == parsed.coordinates # NoneV /\ parsed.coordinates.d # <<>>

\* lines 39-70: the dispatch on keywords, the parse, the validation of the
\* first coordinate pair, up to the first message sent
HRoute(r) ==
    /\ hdl[r].pc = "received"
    /\ LET user_input == hdl[r].user_input
           parsed == parse_user_input(user_input)
       IN  hdl' = [hdl EXCEPT ![r] =
             IF ContainsAny(user_input, {"scheme", "sarkari", "package"})
             THEN [@ EXCEPT !.pc = "schemes"]
             ELSE IF ContainsAny(user_input, {"islamic", "islami"})
             THEN [@ EXCEPT !.pc = "islamic"]
             ELSE IF ContainsAny(user_input, {"weather", "mausam"})
             THEN [@ EXCEPT !.pc = "weather"]
             ELSE IF ~HasCoordinates(parsed)
             THEN [@ EXCEPT !.pc = "chat", !.parsed_input = parsed]
             ELSE IF ~validate_coordinates(parsed.coordinates.d[1][1],
                                           parsed.coordinates.d[1][2])
             THEN [@ EXCEPT !.pc = "done", !.parsed_input = parsed,
                            !.msgs = Append(@, Sent("outside_pakistan", Variant(parsed), "", NoneV))]
             ELSE [@ EXCEPT !.pc = "analyse", !.parsed_input = parsed,
                            !.processing_msg = TRUE,
                            !.msgs = Append(@, Sent("processing", "roman", "", NoneV))]]
    /\ UNCHANGED <<agg, rep, files, call>>

\* lines 208-262: handle_government_schemes
HSchemes(r) ==
    /\ hdl[r].pc = "schemes"
    /\ LET parsed == parse_user_input(hdl[r].user_input)
           named == {j \in 1..Len(SCHEMES) :
                        ContainsWords(hdl[r].user_input, lower(SCHEMES[j].key))}
           scheme_name == IF named = {} THEN NoneV
                          ELSE Str(SCHEMES[CHOOSE j \in named : \A i \in named : j <= i].key)
           scheme_info == get_scheme_info(scheme_name, parsed.language)
       IN  hdl' = [hdl EXCEPT ![r] =
             [@ EXCEPT !.pc = "done", !.parsed_input = parsed,
                       !.msgs = Append(@,
                          IF HasKey(scheme_info.d, "error")
                          THEN Sent("no_scheme_found", parsed.language, "", NoneV)
                          ELSE IF scheme_name # NoneV
                          THEN Sent("scheme", parsed.language, scheme_info.d[KeyIndex(scheme_info.d, "description", 1)].val, NoneV)
                          ELSE Sent("all_schemes", parsed.language, "", NoneV))]]
    /\ UNCHANGED <<agg, rep, files, call>>

\* lines 264-280: handle_islamic_farming_query; FarmBotAnalyzer has no
\* get_islamic_farming_tips, so line 269 raises AttributeError
HIslamic(r) ==
    /\ hdl[r].pc = "islamic"
    /\ hdl' = [hdl EXCEPT ![r] =
         [@ EXCEPT !.pc = "crashed",
                   !.parsed_input = parse_user_input(hdl[r].user_input),
                   !.exc = "type object 'FarmBotAnalyzer' has no attribute 'get_islamic_farming_tips'"]]
    /\ UNCHANGED <<agg, rep, files, call>>

\* lines 282-333: handle_weather_query
HWeatherQuery(r) ==
    /\ hdl[r].pc = "weather"
    /\ LET parsed == parse_user_input(hdl[r].user_input)
       IN  IF ~HasCoordinates(parsed)
           THEN hdl' = [hdl EXCEPT ![r] =
                  [@ EXCEPT !.pc = "done", !.parsed_input = parsed,
                            !.msgs = Append(@, Sent("weather_needs_location", parsed.language, "", NoneV))]]
           ELSE \E weather_data \in get_weather :
                  hdl' = [hdl EXCEPT ![r] =
                    [@ EXCEPT !.pc = "done", !.parsed_input = parsed,
                              !.calls = Append(@, [adapter |-> "weather", i |-> 0]),
                              !.msgs = Append(@,
                                 IF "error" \in DOMAIN weather_data.d
                                 THEN Sent("weather_error", parsed.language, "", NoneV)
                                 ELSE Sent("weather", parsed.language,
                                           weather_data.d.timestamp, NoneV))]]
    /\ UNCHANGED <<agg, rep, files, call>>

\* lines 72-79: the call of get_analysis_data
HAnalyse(r) ==
    /\ hdl[r].pc = "analyse"
    /\ hdl' = [hdl EXCEPT ![r].pc = "in_analysis"]
    /\ agg' = [agg EXCEPT ![r] =
         AggCalled(hdl[r].parsed_input.coordinates.d,
                   hdl[r].parsed_input.date_range,
                   hdl[r].parsed_input.analysis_type)]
    /\ UNCHANGED <<rep, files, call>>

\* Failed going on to the chat flow instead of returning.
Failed_FallsThrough(h, msg) ==
    [h EXCEPT !.pc = "chat", !.processing_msg = FALSE, !.exc = msg,
              !.msgs = Append(@, Sent("analysis_failed", Variant(h.parsed_input), msg, NoneV))]

\* lines 179-185: except Exception as e
Failed(h, msg) ==
    [h EXCEPT !.pc = "done", !.processing_msg = FALSE, !.exc = msg,
              !.msgs = Append(@, Sent("analysis_failed", Variant(h.parsed_input), msg, NoneV))]

\* lines 81-90: the check of the analysis data, the call of generate_pdf_report
HAfterAnalysis(r) ==
    /\ hdl[r].pc = "in_analysis"
    /\ agg[r].pc \in {"returned", "raised"}
    /\ IF agg[r].pc = "raised"
       THEN /\ hdl' = [hdl EXCEPT ![r] = Failed(@, agg[r].exc)]
            /\ rep' = rep
       ELSE IF ~IsDict(agg[r].ret) \/ agg[r].ret.d = <<>>
       THEN /\ hdl' = [hdl EXCEPT ![r] =
                  [@ EXCEPT !.pc = "done", !.processing_msg = FALSE,
                            !.msgs = Append(@, Sent("analysis_error", Variant(@), "", NoneV))]]
            /\ rep' = rep
       ELSE /\ hdl' = [hdl EXCEPT ![r].pc = "in_report"]
            /\ rep' = [rep EXCEPT ![r] = RepCalled(agg[r].ret)]
    /\ UNCHANGED <<agg, files, call>>

\* lines 93-163: the lines of the summary, from the record of point_0
Summary(analysis_data) ==
    LET j == KeyIndex(analysis_data.d, "point_0", 1)
        point_data == IF j = 0 THEN <<>> ELSE analysis_data.d[j].val.d
    IN  (IF "ndvi" \in DOMAIN point_data
         THEN <<"NDVI: " \o StrOf(point_data.ndvi)>> ELSE <<>>)
        \o (IF "soil_moisture" \in DOMAIN point_data /\ IsNumber(point_data.soil_moisture)
            THEN <<"NDMI: " \o StrOf(point_data.soil_moisture)>> ELSE <<>>)
        \o (IF "weather" \in DOMAIN point_data /\ point_data.weather # <<>>
            THEN <<"Temperature: " \o StrOf(Get(point_data.weather, "temperature", Str("N/A"))),
                   "Humidity: " \o StrOf(Get(point_data.weather, "humidity", Str("N/A"))),
                   "Rain: " \o StrOf(Get(point_data.weather, "rain", Num(0)))>>
            ELSE <<>>)

\* lines 90-172: the report is there or generate_pdf_report raised; the
\* summary is put together and the processing message removed
HAfterReport(r) ==
    /\ hdl[r].pc = "in_report"
    /\ rep[r].pc \in {"returned", "raised"}
    /\ hdl' = [hdl EXCEPT ![r] =
         IF rep[r].pc = "raised"
         THEN Failed(@, rep[r].exc)
         ELSE [@ EXCEPT !.pc = "send_report", !.processing_msg = FALSE,
                        !.report_file = rep[r].ret]]
    /\ UNCHANGED <<agg, rep, files, call>>

\* line 173: the summary goes out with the file at report_file attached
HSendReport(r) ==
    /\ hdl[r].pc = "send_report"
    /\ hdl' = [hdl EXCEPT ![r] =
         [@ EXCEPT !.pc = "send_phrase",
                   !.msgs = Append(@,
                      [Sent("analysis_ready", hdl[r].parsed_input.language, "",
                            [path |-> hdl[r].report_file.s,
                             content |-> files[hdl[r].report_file.s]])
                         EXCEPT !.detail = Summary(agg[r].ret)])]]
    /\ UNCHANGED <<agg, rep, files, call>>

\* lines 175-177: one of the farming phrases, whichever random.choice draws
HSendPhrase(r) ==
    /\ hdl[r].pc = "send_phrase"
    /\ hdl' = [hdl EXCEPT ![r] =
         [@ EXCEPT !.pc = "done",
                   !.msgs = Append(@, Sent("farming_phrase", "roman", "", NoneV))]]
    /\ UNCHANGED <<agg, rep, files, call>>

\* lines 187-207: the conversational agent answers
HChat(r) ==
    /\ hdl[r].pc = "chat"
    /\ hdl' = [hdl EXCEPT ![r] =
         [@ EXCEPT !.pc = "done",
                   !.msgs = Append(@, Sent("chat", "agent", "", NoneV))]]
    /\ UNCHANGED <<agg, rep, files, call>>

HdlNext ==
    \E r \in Req :
        \/ HRoute(r)
        \/ HSchemes(r)
        \/ HIslamic(r)
        \/ HWeatherQuery(r)
        \/ HAnalyse(r)
        \/ HAfterAnalysis(r)
        \/ HAfterReport(r)
        \/ HSendReport(r)
        \/ HSendPhrase(r)
        \/ HChat(r)

-----------------------------------------------------------------------------
(* Direct calls of get_analysis_data *)

InRegion == <<315, 743>>
OutOfRegion == <<371, 743>>
AggCoords == {InRegion, OutOfRegion}

CoordLists == UNION {[1..n -> AggCoords] : n \in 0..MaxPoints}

DateRanges == {NoDateRange, DateRange("2024-01-01", "2024-03-01")}


InitAgg ==
    /\ hdl = [r \in Req |-> HdlIdle]
    /\ rep = [r \in Req |-> RepIdle]
    /\ files = <<>>
    /\ call = NoCall
    /\ \E cs \in CoordLists, dr \in DateRanges, at \in AnalysisTypes :
         agg = [r \in Req |-> IF r = "r1" THEN AggCalled(cs, dr, at) ELSE AggIdle]

SpecAgg == InitAgg /\ [][AggNext]_vars

-----------------------------------------------------------------------------
(* Direct calls of generate_pdf_report *)

\* Records of the shapes get_analysis_data stores.
BaseRecord ==
    [coordinates |-> InRegion, analysis_period |-> "2024-01-01 to 2024-03-01",
     weather |-> format_weather_data(Dict(WeatherReading))]

DegradedRecord ==
    [coordinates |-> InRegion, analysis_period |-> "today-90d to today",
     weather |-> format_weather_data(Dict([error |-> "Weather API key not configured"]))]

WithNdvi(rec, v) == rec @@ [ndvi |-> v, crop_health |-> _assess_crop_health(v)]
WithMoisture(rec, v) == rec @@ [soil_moisture |-> v]

ReportEntries ==
    { Str("not a record"),
      Dict([error |-> "Coordinates outside Pakistan"]),
      Dict(BaseRecord),
      Dict(WithMoisture(WithNdvi(BaseRecord, Num(80)), Num(25))),
      Dict(WithMoisture(WithNdvi(DegradedRecord, NoneV), NoneV)),
      Dict(<<>>) }

\* {"point_0": es[1], "point_1": es[2], ...}
Mapping(es) == [j \in 1..Len(es) |-> [key |-> PointKey(j - 1), val |-> es[j]]]

ReportInputs ==
    { NoneV, List(<<>>), Dict(<<>>),
      Dict(<<[key |-> "error", val |-> Str("No coordinates provided")]>>) }
    \cup { Dict(Mapping(es)) : es \in UNION {[1..n -> ReportEntries] : n \in 1..MaxPoints} }

InitReport ==
    /\ hdl = [r \in Req |-> HdlIdle]
    /\ agg = [r \in Req |-> AggIdle]
    /\ files = <<>>
    /\ call = NoCall
    /\ \E data \in ReportInputs :
         rep = [r \in Req |-> IF r = "r1" THEN RepCalled(data) ELSE RepIdle]

SpecReport == InitReport /\ [][RepNext]_vars

-----------------------------------------------------------------------------
(* Report generations for different requests running at the same time, as   *)
(* they do when calls of generate_pdf_report overlap in threads or in       *)
(* worker processes that share the temporary directory.                     *)

ConcEntries ==
    { Dict(WithMoisture(WithNdvi(BaseRecord, Num(80)), Num(25))),
      Dict(WithNdvi(DegradedRecord, Num(20))),
      Dict([error |-> "Coordinates outside Pakistan"]) }

InitConc ==
    /\ hdl = [r \in Req |-> HdlIdle]
    /\ agg = [r \in Req |-> AggIdle]
    /\ files = <<>>
    /\ call = NoCall
    /\ \E es \in [Req -> ConcEntries] :
         rep = [r \in Req |-> RepCalled(Dict(Mapping(<<es[r]>>)))]

SpecConc == InitConc /\ [][RepNext]_vars

-----------------------------------------------------------------------------
(* User messages *)

\* The words a message may open with: a keyword of one of the special
\* handlers, "urdu", a term of the analysis table.
Openings ==
    { <<>>, <<Word("scheme")>>, <<Word("kissan"), Word("package")>>,
      <<Word("islamic")>>, <<Word("weather")>>,
      <<Word("urdu")>>, <<Word("pest")>>, <<Word("urdu"), Word("pest")>> }

PairsOf(cs) == [j \in 1..Len(cs) |-> Pair(cs[j][1], cs[j][2])]

UserMessages == { Message(o \o PairsOf(cs)) : o \in Openings, cs \in CoordLists }

InitHandler ==
    /\ agg = [r \in Req |-> AggIdle]
    /\ rep = [r \in Req |-> RepIdle]
    /\ files = <<>>
    /\ call = NoCall
    /\ \E text \in UserMessages :
         hdl = [r \in Req |-> IF r = "r1" THEN HdlCalled(text) ELSE HdlIdle]

\* The handler with the aggregator and the report generator it calls, in an
\* environment where writing the document may fail.
HandlerNext ==
    \/ HdlNext
    \/ AggNext
    \/ RepNext
    \/ \E r \in Req : RepBuildFails(r)

SpecHandler == InitHandler /\ [][HandlerNext]_vars

-----------------------------------------------------------------------------
(* Two user messages handled by one event loop *)

\* A handler between two awaits: get_analysis_data and generate_pdf_report
\* are synchronous, so from the call of the first (line 74) to the next
\* await (line 172, or 82 and 180 on the error paths) nothing else runs.
Running(q) == hdl[q].pc \in {"in_analysis", "in_report"}

\* The step is taken by the handler that is running, when one is.
EventLoop ==
    \A q \in Req :
        Running(q) => <<hdl[q], agg[q], rep[q]>>' # <<hdl[q], agg[q], rep[q]>>

OverlappingMessages ==
    { Message(<<Pair(InRegion[1], InRegion[2])>>),
      Message(<<Word("pest"), Pair(InRegion[1], InRegion[2])>>),
      Message(<<Word("urdu"), Word("pest"), Pair(OutOfRegion[1], OutOfRegion[2])>>) }

InitOverlap ==
    /\ agg = [r \in Req |-> AggIdle]
    /\ rep = [r \in Req |-> RepIdle]
    /\ files = <<>>
    /\ call = NoCall
    /\ \E texts \in [Req -> OverlappingMessages] :
         hdl = [r \in Req |-> HdlCalled(texts[r])]

OverlapNext ==
    \/ HdlNext /\ EventLoop
    \/ AggNext /\ EventLoop
    \/ RepNext /\ EventLoop
    \/ (\E r \in Req : RepBuildFails(r)) /\ EventLoop

SpecOverlap == InitOverlap /\ [][OverlapNext]_vars

-----------------------------------------------------------------------------
(* Direct calls of the pure functions *)

\* fn(args) has been called.
FnCalled(fn, args) == [fn |-> fn, pc |-> "called", args |-> args, ret |-> <<>>]

\* The index values drawn reach from -IndexRange to IndexRange hundredths.
IndexRange == 100

HealthInputs ==
    {Num(n) : n \in (0 - IndexRange)..IndexRange}
        \cup {NoneV, Str("n/a"), Str("0.8"), Dict(<<>>), List(<<>>)}

\* The coordinates drawn lie up to CoordMargin tenths of a degree on either
\* side of a boundary of the region, or well inside it.
CoordMargin == 2

Around(n) == (n - CoordMargin)..(n + CoordMargin)
Latitudes == Around(235) \cup Around(370) \cup {315}
Longitudes == Around(600) \cup Around(770) \cup {743}

\* The texts drawn: up to MaxWords words, then at most one date-range
\* phrase, then at most one coordinate pair.
MaxWords == 2

Vocabulary ==
    {"urdu", "URDU", "ndvi", "NDVI", "soil", "topsoil", "temperature",
     "health", "unhealthy", "pest", "wheat"}

WordLists == UNION {[1..n -> {Word(w) : w \in Vocabulary}] : n \in 0..MaxWords}

DateBounds ==
    {IsoDate(2024, 1, 1), IsoDate(2024, 3, 1), IsoDate(2024, 2, 29),
     IsoDate(2023, 2, 29), IsoDate(2024, 13, 1),
     DayMonth(15, "June"), DayMonth(20, "July"), DayMonth(31, "Feb")}

Phrases ==
    {<<>>} \cup {<<Phrase(a, b)>> : a \in DateBounds, b \in DateBounds}
           \cup {<<PhraseOf("between", IsoDate(2024, 1, 1), "and", b)>> : b \in DateBounds}

ParseInputs ==
    {NoneV, Num(0), Num(5), List(<<>>), Dict(<<>>), Padded(<<>>, 0), Padded(<<>>, 3),
     Padded(<<Word("soil")>>, 1)}
        \cup {Message(ws \o ph \o cs) :
                ws \in WordLists, ph \in Phrases, cs \in {<<>>, <<Pair(315, 743)>>}}

\* _assess_crop_health(ndvi_value) runs
CallAssess ==
    /\ call.fn = "_assess_crop_health" /\ call.pc = "called"
    /\ call' = [call EXCEPT !.pc = "returned",
                            !.ret = _assess_crop_health(call.args[1])]
    /\ UNCHANGED <<hdl, agg, rep, files>>

\* validate_coordinates(lat, lon) runs
CallValidate ==
    /\ call.fn = "validate_coordinates" /\ call.pc = "called"
    /\ call' = [call EXCEPT !.pc = "returned",
                            !.ret = validate_coordinates(call.args[1], call.args[2])]
    /\ UNCHANGED <<hdl, agg, rep, files>>

\* parse_user_input(user_input) runs
CallParse ==
    /\ call.fn = "parse_user_input" /\ call.pc = "called"
    /\ call' = [call EXCEPT !.pc = "returned",
                            !.ret = parse_user_input(call.args[1])]
    /\ UNCHANGED <<hdl, agg, rep, files>>

\* Two calls of parse_user_input on one text, and a caller that changes what
\* the first call returned. Objects are kept by address: heap[a] is the
\* list or dict at address a, Ref(a) a reference to it.
Ref(a) == [t |-> "ref", a |-> a]

TwiceCalled(text) ==
    [fn |-> "parse_user_input twice", pc |-> "called", args |-> <<text>>,
     ret |-> <<>>, heap |-> <<>>]

\* NewIntent taking the two empty lists of the first call again.
NewIntent_SharedDefaults(heap, parsed) ==
    LET n == Len(heap)
        shared == n > 0
    IN  heap \o
        << List(parsed.other_instructions), List(parsed.special_requests),
           parsed.coordinates,
           Dict([parsed EXCEPT
                   !.other_instructions = IF shared THEN Ref(1) ELSE Ref(n + 1),
                   !.special_requests = IF shared THEN Ref(2) ELSE Ref(n + 2),
                   !.coordinates = IF @ = NoneV THEN NoneV ELSE Ref(n + 3)]) >>

\* lines 25-32, 52: the objects a call creates, put after those there are:
\* the two lists of the record, the coordinate list where there is one (None
\* otherwise), and the record itself, which the call returns
NewIntent(heap, parsed) ==
    LET n == Len(heap)
    IN  heap \o
        << List(parsed.other_instructions), List(parsed.special_requests),
           parsed.coordinates,
           Dict([parsed EXCEPT
                   !.other_instructions = Ref(n + 1),
                   !.special_requests = Ref(n + 2),
                   !.coordinates = IF @ = NoneV THEN NoneV ELSE Ref(n + 3)]) >>

\* The record at an address, with the lists it refers to.
ValueAt(heap, ref) ==
    [heap[ref.a].d EXCEPT
        !.other_instructions = heap[@.a].d,
        !.special_requests = heap[@.a].d,
        !.coordinates = IF @ = NoneV THEN NoneV ELSE heap[@.a]]

\* parse_user_input(user_input) runs, for the first or the second time
CallParseAgain ==
    /\ call.fn = "parse_user_input twice" /\ call.pc = "called"
    /\ LET heap == NewIntent(call.heap, parse_user_input(call.args[1]))
       IN  call' = [call EXCEPT
                      !.heap = heap,
                      !.ret = Append(@, Ref(Len(heap))),
                      !.pc = IF Len(call.ret) = 1 THEN "returned" ELSE "called"]
    /\ UNCHANGED <<hdl, agg, rep, files>>

\* The caller changes the record of the first call: it appends to one of
\* its lists or sets one of its fields.
ChangeFirst ==
    /\ call.fn = "parse_user_input twice" /\ call.pc = "returned"
    /\ LET first == call.heap[call.ret[1].a].d
       IN  \/ \E f \in {"other_instructions", "special_requests", "coordinates"} :
                /\ first[f] # NoneV
                /\ call' = [call EXCEPT
                     !.pc = "changed",
                     !.heap = [@ EXCEPT ![first[f].a] = List(Append(@.d, "x"))]]
           \/ call' = [call EXCEPT
                     !.pc = "changed",
                     !.heap = [@ EXCEPT ![call.ret[1].a] =
                                 Dict([@.d EXCEPT !.analysis_type = "changed"])]]
    /\ UNCHANGED <<hdl, agg, rep, files>>

TwiceInputs ==
    {NoneV, Num(5), Padded(<<>>, 0), Padded(<<>>, 3)}
        \cup {Message(ws \o cs) : ws \in WordLists, cs \in {<<>>, <<Pair(315, 743)>>}}

InitFn ==
    /\ hdl = [r \in Req |-> HdlIdle]
    /\ agg = [r \in Req |-> AggIdle]
    /\ rep = [r \in Req |-> RepIdle]
    /\ files = <<>>
    /\ call \in {FnCalled("_assess_crop_health", <<v>>) : v \in HealthInputs}
          \cup {FnCalled("validate_coordinates", <<lat, lon>>) :
                  lat \in Latitudes, lon \in Longitudes}
          \cup {FnCalled("parse_user_input", <<u>>) : u \in ParseInputs}
          \cup {TwiceCalled(u) : u \in TwiceInputs}

FnNext ==
    \/ CallAssess
    \/ CallValidate
    \/ CallParse
    \/ CallParseAgain
    \/ ChangeFirst

SpecFn == InitFn /\ [][FnNext]_vars

-----------------------------------------------------------------------------
(* Direct calls of generate_pdf_report over the soil-moisture values *)

MoistureInputs ==
    { Dict(Mapping(<<Dict(WithMoisture(rec, Num(n)))>>)) :
        rec \in {BaseRecord, DegradedRecord}, n \in (0 - IndexRange)..IndexRange }

InitMoisture ==
    /\ hdl = [r \in Req |-> HdlIdle]
    /\ agg = [r \in Req |-> AggIdle]
    /\ files = <<>>
    /\ call = NoCall
    /\ \E data \in MoistureInputs :
         rep = [r \in Req |-> IF r = "r1" THEN RepCalled(data) ELSE RepIdle]

SpecMoisture == InitMoisture /\ [][RepNext]_vars

-----------------------------------------------------------------------------
(* Properties of get_analysis_data *)

IsErrorRecord(v) == IsDict(v) /\ "error" \in DOMAIN v.d
IsDataRecord(v) == IsDict(v) /\ "error" \notin DOMAIN v.d

Raised(o) == o.kind = "raise"
Returned(o) == o.kind = "return"

WantsNdvi(at) == at \in {"full", "ndvi_only", "crop_health"}
WantsNdmi(at) == at \in {"full", "soil_moisture"}

\* A step of the point's remote-sensing processing raised.
ProcessingRaised(o) ==
    Raised(o.geometry) \/ Raised(o.query) \/ Raised(o.ndvi) \/ Raised(o.ndmi)

\* Every adapter asked for the point answered, the weather adapter with a reading.
AllSucceeded(o, at) ==
    /\ Returned(o.geometry)
    /\ Returned(o.weather) /\ IsDict(o.weather.val) /\ "error" \notin DOMAIN o.weather.val.d
    /\ Returned(o.query)
    /\ (WantsNdvi(at) => Returned(o.ndvi))
    /\ (WantsNdmi(at) => Returned(o.ndmi))

\* The weather adapter failed: an exception, or a returned {error: ...}.
WeatherFailed(o) ==
    \/ Raised(o.weather)
    \/ Returned(o.weather) /\ IsDict(o.weather.val) /\ "error" \in DOMAIN o.weather.val.d

\* The record of a point as its own coordinates and its own adapters' answers
\* determine it, whatever happened to the other points of the list.
OwnRecord(c, period, at, o) ==
    IF ~((235 <= c[1] /\ c[1] <= 370) /\ (600 <= c[2] /\ c[2] <= 770))
    THEN [error |-> "Coordinates outside Pakistan"]
    ELSE IF Raised(o.geometry) THEN [error |-> o.geometry.msg]
    ELSE IF Raised(o.query) THEN [error |-> o.query.msg]
    ELSE IF Raised(o.ndvi) THEN [error |-> o.ndvi.msg]
    ELSE IF Raised(o.ndmi) THEN [error |-> o.ndmi.msg]
    ELSE [coordinates |-> c, analysis_period |-> period,
          weather |-> IF Raised(o.weather)
                      THEN UnavailableWeather("Error: Weather API error: " \o o.weather.msg)
                      ELSE IF ~IsDict(o.weather.val) THEN UnavailableWeather("Unknown")
                      ELSE IF "error" \in DOMAIN o.weather.val.d
                           THEN UnavailableWeather("Error: " \o o.weather.val.d.error)
                      ELSE [k \in {"temperature", "humidity", "wind_speed", "conditions", "rain"}
                              |-> o.weather.val.d[k]]]
         @@ (IF Returned(o.ndvi)
             THEN [ndvi |-> o.ndvi.val,
                   crop_health |-> IF ~IsNumber(o.ndvi.val) THEN "Unknown"
                                   ELSE IF o.ndvi.val.n > 70 THEN "Excellent"
                                   ELSE IF o.ndvi.val.n > 50 THEN "Good"
                                   ELSE IF o.ndvi.val.n > 30 THEN "Moderate"
                                   ELSE "Poor"]
             ELSE <<>>)
         @@ (IF Returned(o.ndmi) THEN [soil_moisture |-> o.ndmi.val] ELSE <<>>)

Period(a) == a.date_range.s \o " to " \o a.date_range.e

\* The points of the call whose record is stored.
Stored(a) == 1..Len(a.results)

\* C1: an exception at any step of an in-region point's processing becomes
\* that point's {error: message} record and nothing else: the call does not
\* end with the exception, and every point's stored record is the one its own
\* coordinates and adapter answers determine.
C1_ExceptionIsolatedToPoint ==
    \A r \in Req :
        LET a == agg[r]
        IN  (\E k \in 1..Len(a.obs) : ProcessingRaised(a.obs[k])) =>
              /\ a.pc # "raised"
              /\ \A k \in Stored(a) :
                    /\ a.results[k].val =
                         Dict(OwnRecord(a.coords[k], Period(a), a.analysis_type, a.obs[k]))
                    /\ (ProcessingRaised(a.obs[k]) => IsErrorRecord(a.results[k].val))

\* C2: a point outside the region gets the error record and the loop goes on:
\* the call returns one record per point, the out-of-region ones the error
\* "Coordinates outside Pakistan", and an in-region point whose adapters all
\* succeed a data record fixed by its own coordinates and answers alone.
C2_OutOfRegionDoesNotStopLoop ==
    \A r \in Req :
        LET a == agg[r]
        IN  (a.pc = "returned" /\ a.coords # <<>>) =>
              /\ Len(a.ret.d) = Len(a.coords)
              /\ \A k \in 1..Len(a.coords) :
                    /\ a.ret.d[k].key = "point_" \o ToString(k - 1)
                    /\ (a.coords[k] = OutOfRegion =>
                          a.ret.d[k].val = Dict([error |-> "Coordinates outside Pakistan"]))
                    /\ (a.coords[k] = InRegion /\ AllSucceeded(a.obs[k], a.analysis_type) =>
                          /\ IsDataRecord(a.ret.d[k].val)
                          /\ a.ret.d[k].val =
                               Dict(OwnRecord(InRegion, Period(a), a.analysis_type, a.obs[k])))

\* C2's case: point 0 outside the region, point 1 inside with every adapter
\* succeeding, and the call has returned both records.
C2_Witness ==
    LET a == agg["r1"]
    IN  /\ a.pc = "returned"
        /\ a.coords = <<OutOfRegion, InRegion>>
        /\ AllSucceeded(a.obs[2], a.analysis_type)
        /\ IsErrorRecord(a.ret.d[1].val)
        /\ IsDataRecord(a.ret.d[2].val)

\* C3: a call on n > 0 coordinates that returns has exactly the keys
\* point_0 .. point_(n-1) in input order, each with an error record or with a
\* data record whose coordinates are the input pair of that position.
C3_KeysInInputOrder ==
    \A r \in Req :
        LET a == agg[r]
        IN  (a.pc = "returned" /\ a.coords # <<>>) =>
              /\ IsDict(a.ret)
              /\ Len(a.ret.d) = Len(a.coords)
              /\ \A k \in 1..Len(a.ret.d) :
                    /\ a.ret.d[k].key = "point_" \o ToString(k - 1)
                    /\ \/ IsErrorRecord(a.ret.d[k].val)
                       \/ /\ IsDataRecord(a.ret.d[k].val)
                          /\ a.ret.d[k].val.d.coordinates = a.coords[k]

\* C3's case: a returned call on two coordinates with a data record second.
C3_Witness ==
    LET a == agg["r1"]
    IN  /\ a.pc = "returned"
        /\ Len(a.coords) = 2
        /\ IsDataRecord(a.ret.d[2].val)
        /\ IsErrorRecord(a.ret.d[1].val)
        /\ a.coords[1] = InRegion

\* C9: a failed weather lookup never fails the point: a point with a failed
\* lookup has an error record only if a remote-sensing step raised, and
\* otherwise a data record whose weather has the unavailable sentinels and
\* whose indices are the ones the remote-sensing adapter answered.
C9_WeatherFailureDegrades ==
    \A r \in Req :
        LET a == agg[r]
        IN  \A k \in Stored(a) :
              LET o == a.obs[k]
                  v == a.results[k].val
              IN  WeatherFailed(o) =>
                    /\ (IsErrorRecord(v) => ProcessingRaised(o))
                    /\ o.query # NotAsked
                    /\ (IsDataRecord(v) =>
                          /\ v.d.weather.temperature = Str("N/A")
                          /\ v.d.weather.humidity = Str("N/A")
                          /\ v.d.weather.wind_speed = Str("N/A")
                          /\ v.d.weather.rain = Num(0)
                          /\ ("ndvi" \in DOMAIN v.d <=> WantsNdvi(a.analysis_type))
                          /\ ("soil_moisture" \in DOMAIN v.d <=> WantsNdmi(a.analysis_type))
                          /\ (WantsNdvi(a.analysis_type) => v.d.ndvi = o.ndvi.val)
                          /\ (WantsNdmi(a.analysis_type) => v.d.soil_moisture = o.ndmi.val))

\* C9's case: one point whose weather lookup raised and one whose lookup
\* returned {error: ...}, both with a data record holding a numeric NDVI.
C9_Witness ==
    LET a == agg["r1"]
    IN  /\ a.pc = "returned"
        /\ Len(a.results) = 2
        /\ Raised(a.obs[1].weather)
        /\ Returned(a.obs[2].weather) /\ WeatherFailed(a.obs[2])
        /\ \A k \in 1..2 :
              /\ IsDataRecord(a.results[k].val)
              /\ "ndvi" \in DOMAIN a.results[k].val.d
              /\ IsNumber(a.results[k].val.d.ndvi)

\* C10: on an empty coordinate list the call returns the one top-level
\* record {error: "No coordinates provided"} and asks no adapter.
C10_EmptyListTopLevelError ==
    \A r \in Req :
        LET a == agg[r]
        IN  a.coords = <<>> =>
              /\ a.calls = <<>>
              /\ a.pc \in {"idle", "entry", "returned"}
              /\ (a.pc = "returned" =>
                    a.ret = Dict(<<[key |-> "error", val |-> Str("No coordinates provided")]>>))

\* C10's case: the call on the empty list has returned.
C10_Witness ==
    /\ agg["r1"].pc = "returned"
    /\ agg["r1"].coords = <<>>
    /\ IsDict(agg["r1"].ret)

-----------------------------------------------------------------------------
(* Properties of generate_pdf_report *)

\* The positions of the failed points and of the successful points of a mapping.
FailedPoints(items) ==
    {j \in 1..Len(items) : items[j].val.t = "dict" /\ "error" \in DOMAIN items[j].val.d}
SuccessfulPoints(items) ==
    {j \in 1..Len(items) : items[j].val.t = "dict" /\ "error" \notin DOMAIN items[j].val.d}

HasElement(els, kind) == \E e \in 1..Len(els) : els[e].kind = kind

\* The kinds of flowable of a point's quantitative section.
SectionKinds ==
    {"point_heading", "analysis_period", "ndvi_heading", "ndvi_chart",
     "ndvi_interpretation", "moisture_heading", "moisture_chart",
     "moisture_recommendation", "weather_heading", "weather_table",
     "weather_impact", "recommendations_heading", "recommendation",
     "no_recommendations", "schemes_heading", "scheme", "scheme_description",
     "schemes_contact"}

\* C4: whenever a point of the input failed, the report has the error
\* summary and the summary lists every failed point, also when other points
\* succeeded; no failed point has a quantitative section.
C4_ErrorSummaryListsEveryFailedPoint ==
    \A r \in Req :
        rep[r].pc = "returned" =>
            LET items == rep[r].data.d
                els == rep[r].elements
            IN  /\ FailedPoints(items) # {} =>
                     /\ HasElement(els, "issues_heading")
                     /\ \A j \in FailedPoints(items) :
                           \E e \in 1..Len(els) :
                               els[e].kind = "issue" /\ els[e].key = items[j].key
                /\ \A j \in FailedPoints(items) :
                       \A e \in 1..Len(els) :
                           els[e].kind \in SectionKinds => els[e].key # items[j].key

\* The input is empty, is no mapping or has no dictionary-shaped entry.
StructurallyInvalid(data) ==
    \/ data.t # "dict"
    \/ data.d = <<>>
    \/ \A j \in 1..Len(data.d) : data.d[j].val.t # "dict"

\* C5: generate_pdf_report raises exactly on the structurally invalid
\* inputs (with one of its two ValueErrors, before anything is built); on
\* every other input it never raises and what it returns is the report path.
C5_RaisesOnlyOnStructuralInvalidity ==
    \A r \in Req :
        rep[r].pc # "idle" =>
            /\ rep[r].pc = "raised" =>
                 /\ StructurallyInvalid(rep[r].data)
                 /\ rep[r].exc \in
                      {"Invalid data format - expected dictionary with analysis results",
                       "No valid point data structure found in input"}
                 /\ rep[r].elements = <<>>
            /\ StructurallyInvalid(rep[r].data) => rep[r].pc \in {"entry", "raised"}
            /\ rep[r].pc = "returned" => rep[r].ret = Str("/tmp/farmbot_analysis_report.pdf")

\* C5's case: a report returned for a mapping mixing a failed and a
\* successful point.
C5_Witness ==
    /\ rep["r1"].pc = "returned"
    /\ FailedPoints(rep["r1"].data.d) # {}
    /\ SuccessfulPoints(rep["r1"].data.d) # {}
    /\ rep["r1"].ret.t = "str"

\* C6: the footer status of a built report is "Partial" exactly when no
\* dictionary-shaped entry is free of an error key and "Complete" otherwise;
\* a "Partial" report has the warning banner and the issues list with at
\* least one item, and no quantitative section.
C6_FooterPartialIffNoPointSucceeded ==
    \A r \in Req :
        rep[r].pc = "returned" =>
            LET items == rep[r].data.d
                els == rep[r].elements
            IN  /\ rep[r].status \in {"Partial", "Complete"}
                /\ rep[r].status = "Partial" <=> SuccessfulPoints(items) = {}
                /\ rep[r].status = "Partial" =>
                     /\ HasElement(els, "warning")
                     /\ HasElement(els, "issues_heading")
                     /\ HasElement(els, "issue")
                     /\ \A e \in 1..Len(els) : els[e].kind \notin SectionKinds

\* C6's case: a report built for a mapping in which every point failed.
C6_Witness ==
    /\ rep["r1"].pc = "returned"
    /\ Len(rep["r1"].data.d) = 2
    /\ FailedPoints(rep["r1"].data.d) = {1, 2}
    /\ rep["r1"].status = "Partial"

-----------------------------------------------------------------------------
(* Properties of concurrent report generations *)

\* C7: report generations of different requests never write a chart file to
\* the same path: no path is written by two requests, a chart a request has
\* created is still its own while its document is being put together, and
\* the chart its document embeds is the one it created.
C7_ChartPathsUniquePerRequest ==
    \A r \in Req :
        /\ \A q \in Req \ {r} : rep[r].charts \cap rep[q].charts = {}
        /\ rep[r].pc = "points" => \A p \in rep[r].charts : files[p].by = r
        /\ \A p \in DOMAIN rep[r].embedded : rep[r].embedded[p].by = r

-----------------------------------------------------------------------------
(* Properties of handle_message *)

\* The positions of the coordinate pairs of a text that lie outside the region.
OutOfRegionPairs(text) ==
    {j \in 1..Len(text.toks) :
        /\ text.toks[j].k = "pair"
        /\ ~validate_coordinates(text.toks[j].lat, text.toks[j].lon)}

\* The request goes the way of the coordinate analysis: no keyword of the
\* scheme, islamic-farming or weather handlers occurs in it.
OnAnalysisRoute(text) ==
    ~ContainsAny(text, {"scheme", "sarkari", "package", "islamic", "islami",
                        "weather", "mausam"})

\* C8: a request on the coordinate-analysis route that holds an
\* out-of-region coordinate pair at any position of its list never gets a
\* weather-adapter or remote-sensing-adapter call, and once it has ended the
\* one message it has sent is the validation error.
C8_OutOfRegionEndsBeforeAdapters ==
    \A r \in Req :
        (/\ hdl[r].pc # "idle"
         /\ OnAnalysisRoute(hdl[r].user_input)
         /\ OutOfRegionPairs(hdl[r].user_input) # {})
        => /\ agg[r].calls = <<>>
           /\ hdl[r].calls = <<>>
           /\ hdl[r].pc = "done" =>
                /\ Len(hdl[r].msgs) = 1
                /\ hdl[r].msgs[1].kind = "outside_pakistan"

\* The failure messages, the reports and the chat answers a request has got.
MessagesOfKind(h, kind) == {j \in 1..Len(h.msgs) : h.msgs[j].kind = kind}

\* C11: a coordinate analysis whose aggregator call or report generation
\* raised never goes on to send a report or to the chat flow, and once the
\* handler has returned it has sent, after the processing message, exactly
\* one failure message: the roman or urdu variant by the detected language,
\* quoting the exception.
C11_ExceptionAnsweredOnce ==
    \A r \in Req :
        (agg[r].pc = "raised" \/ rep[r].pc = "raised") =>
            /\ hdl[r].pc \in {"in_analysis", "in_report", "done"}
            /\ hdl[r].pc = "done" =>
                 /\ hdl[r].msgs =
                      << Sent("processing", "roman", "", NoneV),
                         Sent("analysis_failed",
                              IF hdl[r].parsed_input.language = "urdu"
                              THEN "urdu" ELSE "roman",
                              IF agg[r].pc = "raised" THEN agg[r].exc ELSE rep[r].exc,
                              NoneV) >>
                 /\ Cardinality(MessagesOfKind(hdl[r], "analysis_failed")) = 1
                 /\ MessagesOfKind(hdl[r], "analysis_ready") = {}
                 /\ MessagesOfKind(hdl[r], "chat") = {}
                 /\ hdl[r].report_file = NoneV
                 /\ ~hdl[r].processing_msg

\* C11's case: the report generation of an urdu request raised and the
\* handler has returned.
C11_Witness ==
    /\ hdl["r1"].pc = "done"
    /\ rep["r1"].pc = "raised"
    /\ hdl["r1"].parsed_input.language = "urdu"
    /\ hdl["r1"].exc = rep["r1"].exc

-----------------------------------------------------------------------------
(* Properties of the pure functions *)

Returns(fn) == call.fn = fn /\ call.pc = "returned"

\* C12: the label of a numeric value v is Excellent exactly for v > 0.7,
\* Good for 0.5 < v <= 0.7, Moderate for 0.3 < v <= 0.5 and Poor for
\* v <= 0.3, so that 0.7, 0.5 and 0.3 get the lower label; the label of a
\* value that is not a number is Unknown, and no number gets Unknown.
C12_HealthBrackets ==
    Returns("_assess_crop_health") =>
        LET v == call.args[1]
            label == call.ret
        IN  /\ label \in {"Excellent", "Good", "Moderate", "Poor", "Unknown"}
            /\ label = "Unknown" <=> v.t # "num"
            /\ v.t = "num" =>
                 /\ label = "Excellent" <=> v.n >= 71
                 /\ label = "Good" <=> (51 <= v.n /\ v.n <= 70)
                 /\ label = "Moderate" <=> (31 <= v.n /\ v.n <= 50)
                 /\ label = "Poor" <=> v.n <= 30

\* C12's case: the boundary value 0.7 has got the label Good.
C12_Witness ==
    /\ Returns("_assess_crop_health")
    /\ call.args[1] = Num(70)
    /\ call.ret = "Good"

\* C13: validate_coordinates answers true or false, and false exactly when
\* the latitude is below 23.5 or above 37.0 or the longitude is below 60.0
\* or above 77.0.
C13_RegionBoxInclusive ==
    Returns("validate_coordinates") =>
        LET lat == call.args[1]
            lon == call.args[2]
        IN  /\ call.ret \in BOOLEAN
            /\ call.ret = FALSE <=> (lat < 235 \/ lat > 370 \/ lon < 600 \/ lon > 770)

\* C13's case: a corner of the region is accepted.
C13_Witness ==
    /\ Returns("validate_coordinates")
    /\ call.args = <<370, 600>>
    /\ call.ret = TRUE

\* The input is None, not a text, or a text that is empty or only whitespace.
NoText(u) == u.t # "str" \/ u.toks = <<>>

\* C14: every call of parse_user_input returns a record with all six fields,
\* an analysis type of the table or full, and the language english or urdu;
\* for None, a non-text value, the empty text and a whitespace-only text the
\* record is the fully-defaulted one.
C14_ParserTotal ==
    Returns("parse_user_input") =>
        /\ DOMAIN call.ret = {"coordinates", "date_range", "analysis_type",
                              "language", "other_instructions", "special_requests"}
        /\ call.ret.analysis_type \in
             {"full", "ndvi_only", "soil_moisture", "temp_only", "crop_health", "pest_risk"}
        /\ call.ret.language \in {"english", "urdu"}
        /\ call.ret.coordinates = NoneV \/ call.ret.coordinates.t = "list"
        /\ NoText(call.args[1]) =>
             call.ret = [coordinates |-> NoneV, date_range |-> NoneV,
                         analysis_type |-> "full", language |-> "english",
                         other_instructions |-> <<>>, special_requests |-> <<>>]

\* C14's case: a whitespace-only text has got the defaulted record.
C14_Witness ==
    /\ Returns("parse_user_input")
    /\ call.args[1] = Padded(<<>>, 3)
    /\ call.ret.analysis_type = "full"
    /\ call.ret.coordinates = NoneV

\* The days of the months named in the texts drawn.
MonthDays == [June |-> 30, July |-> 31]

\* A bound that names a real day: a valid ISO date, or a day of a month
\* written "<day> <month-name>".
ProperBound(b) ==
    IF b.form = "iso" THEN _parse_date_string(b) # NoneV
    ELSE b.month \in DOMAIN MonthDays /\ b.d \in 1..MonthDays[b.month]

\* C15: a text whose date-range phrase has a bound in the
\* "<day> <month-name>" form, both bounds naming real days, gets a date
\* range: a pair of two dates, not none.
C15_DayMonthBoundResolved ==
    Returns("parse_user_input") /\ call.args[1].t = "str" =>
        LET dates == FindRange(call.args[1].toks, 1)
        IN  (/\ dates # NoneV
             /\ "daymonth" \in {dates.a.form, dates.b.form}
             /\ ProperBound(dates.a) /\ ProperBound(dates.b))
            => /\ call.ret.date_range # NoDateRange
               /\ call.ret.date_range.t = "pair"

\* A bound that is a calendar date written YYYY-MM-DD.
ParsesAsIso(b) ==
    b.form = "iso" /\ b.y >= 1 /\ b.m \in 1..12 /\ b.d \in 1..DaysInMonth(b.y, b.m)

\* C16: the date range parse_user_input returns is none or a pair; it is a
\* pair only for a text whose date-range phrase has two bounds that are
\* calendar dates in ISO form, and then it is these two dates; when a bound
\* of the phrase is not such a date it is none; "from 2024-01-01 to
\* 2024-03-01" gives ("2024-01-01", "2024-03-01").
C16_DateRangeWholeOrNone ==
    Returns("parse_user_input") =>
        LET u == call.args[1]
            dr == call.ret.date_range
            dates == IF u.t = "str" THEN FindRange(u.toks, 1) ELSE NoneV
        IN  /\ dr.t \in {"none", "pair"}
            /\ dr.t = "pair" =>
                 /\ dates # NoneV
                 /\ ParsesAsIso(dates.a) /\ ParsesAsIso(dates.b)
                 /\ dr.s = IsoText(dates.a.y, dates.a.m, dates.a.d)
                 /\ dr.e = IsoText(dates.b.y, dates.b.m, dates.b.d)
            /\ (dates # NoneV /\ ~(ParsesAsIso(dates.a) /\ ParsesAsIso(dates.b))) => dr = NoneV
            /\ (dates # NoneV /\ ParsesAsIso(dates.a) /\ ParsesAsIso(dates.b)) => dr.t = "pair"
            /\ u = Message(<<Phrase(IsoDate(2024, 1, 1), IsoDate(2024, 3, 1))>>) =>
                 dr = [t |-> "pair", s |-> "2024-01-01", e |-> "2024-03-01"]

\* C16's case: a phrase whose second bound is a calendar date and whose
\* first is not has given no date range.
C16_Witness ==
    /\ Returns("parse_user_input")
    /\ call.args[1] = Message(<<Phrase(IsoDate(2023, 2, 29), IsoDate(2024, 3, 1))>>)
    /\ call.ret.date_range = NoneV

\* The table of the analysis terms, in its order.
TermTable ==
    << [term |-> "ndvi", code |-> "ndvi_only"],
       [term |-> "soil", code |-> "soil_moisture"],
       [term |-> "temperature", code |-> "temp_only"],
       [term |-> "health", code |-> "crop_health"],
       [term |-> "pest", code |-> "pest_risk"] >>

\* The positions in the table of the terms that occur in a text.
TermsIn(u) == {j \in 1..Len(TermTable) : Contains(u, TermTable[j].term)}

\* C17: for a text, the analysis type is full when no term of the table
\* occurs in it, and otherwise the code of the occurring term that stands
\* first in the table, wherever the terms stand in the text and in whatever
\* case they are written.
C17_FirstTermInTableOrder ==
    (Returns("parse_user_input") /\ ~NoText(call.args[1])) =>
        LET hits == TermsIn(call.args[1])
        IN  /\ hits = {} => call.ret.analysis_type = "full"
            /\ hits # {} =>
                 \E j \in hits :
                    /\ \A h \in hits : j <= h
                    /\ call.ret.analysis_type = TermTable[j].code

\* C17's case: "soil" stands before "NDVI" in the text and the type is
\* that of ndvi.
C17_Witness ==
    /\ Returns("parse_user_input")
    /\ call.args[1] = Message(<<Word("soil"), Word("NDVI")>>)
    /\ call.ret.analysis_type = "ndvi_only"

\* The addresses of the objects a returned record is made of.
ObjectsOf(heap, ref) ==
    {ref.a} \cup {heap[ref.a].d[f].a :
                    f \in {g \in {"other_instructions", "special_requests", "coordinates"} :
                             heap[ref.a].d[g] # NoneV}}

\* C18: two calls of parse_user_input on the same input return records
\* that are equal and are made of different objects, and after the caller
\* has changed the record of the first call or one of its lists, the record
\* of the second call is what it was.
C18_NoSharedState ==
    (call.fn = "parse_user_input twice" /\ call.pc \in {"returned", "changed"}) =>
        LET first == call.ret[1]
            second == call.ret[2]
        IN  /\ ObjectsOf(call.heap, first) \cap ObjectsOf(call.heap, second) = {}
            /\ call.pc = "returned" =>
                 ValueAt(call.heap, first) = ValueAt(call.heap, second)
            /\ call.pc = "changed" =>
                 /\ ValueAt(call.heap, second) = parse_user_input(call.args[1])
                 /\ ValueAt(call.heap, first) # ValueAt(call.heap, second)

\* C18's case: the caller has appended to other_instructions of the first
\* record and the list of the second record is still empty.
C18_Witness ==
    /\ call.fn = "parse_user_input twice" /\ call.pc = "changed"
    /\ ValueAt(call.heap, call.ret[1]).other_instructions = <<"x">>
    /\ ValueAt(call.heap, call.ret[2]).other_instructions = <<>>
    /\ call.args[1] = Message(<<Word("soil")>>)

-----------------------------------------------------------------------------
(* Properties of get_analysis_data: the indices computed *)

\* C19: in a returned mapping, the record of a successful point has the
\* vegetation index (and its class) exactly when the analysis type is full,
\* ndvi_only or crop_health, and the moisture index exactly when it is full
\* or soil_moisture, the adapter having been asked for just these; for
\* temp_only and pest_risk the record has coordinates, analysis_period and
\* weather and nothing else.
C19_IndicesByAnalysisType ==
    \A r \in Req :
        agg[r].pc = "returned" /\ agg[r].coords # <<>> =>
            \A j \in 1..Len(agg[r].ret.d) :
                LET rec == agg[r].ret.d[j].val.d
                    at == agg[r].analysis_type
                    o == agg[r].obs[j]
                IN  "error" \notin DOMAIN rec =>
                      /\ {"coordinates", "analysis_period", "weather"} \subseteq DOMAIN rec
                      /\ "ndvi" \in DOMAIN rec <=> at \in {"full", "ndvi_only", "crop_health"}
                      /\ "crop_health" \in DOMAIN rec <=> "ndvi" \in DOMAIN rec
                      /\ o.ndvi.kind = "return" <=> "ndvi" \in DOMAIN rec
                      /\ "soil_moisture" \in DOMAIN rec <=> at \in {"full", "soil_moisture"}
                      /\ o.ndmi.kind = "return" <=> "soil_moisture" \in DOMAIN rec
                      /\ at \in {"temp_only", "pest_risk"} =>
                           DOMAIN rec = {"coordinates", "analysis_period", "weather"}

\* C19's case: a crop_health call has returned a record with the vegetation
\* index and without the moisture index.
C19_Witness ==
    /\ agg["r1"].pc = "returned"
    /\ agg["r1"].analysis_type = "crop_health"
    /\ agg["r1"].coords = <<InRegion>>
    /\ DOMAIN agg["r1"].ret.d[1].val.d =
         {"coordinates", "analysis_period", "weather", "ndvi", "crop_health"}

-----------------------------------------------------------------------------
(* Properties of generate_pdf_report: the schemes excerpt *)

\* The elements of a kind in the section of a point.
ElementsOf(els, kind, key) ==
    {e \in 1..Len(els) : els[e].kind = kind /\ els[e].key = key}

\* C20: in a built report, the section of every successful point names
\* schemes of the scheme store, each with its description: as many as the
\* store has, up to three.
C20_SchemesExcerptPerPoint ==
    \A r \in Req :
        rep[r].pc = "returned" =>
            \A j \in SuccessfulPoints(rep[r].data.d) :
                LET key == rep[r].data.d[j].key
                    names == ElementsOf(rep[r].elements, "scheme", key)
                IN  /\ names # {}
                    /\ Cardinality(names) = IF Len(SCHEMES) < 3 THEN Len(SCHEMES) ELSE 3
                    /\ \A e \in names :
                         /\ HasKey(SCHEMES, rep[r].elements[e].text)
                         /\ rep[r].elements[e + 1].kind = "scheme_description"

-----------------------------------------------------------------------------
(* Properties of generate_pdf_report: page breaks *)

\* C21: in a built report a page break follows the section of a successful
\* point exactly when a later point of the mapping is successful too, so
\* that none follows the last section emitted.
C21_PageBreakBetweenSections ==
    \A r \in Req :
        rep[r].pc = "returned" =>
            LET items == rep[r].data.d
                ok == SuccessfulPoints(items)
            IN  \A j \in ok :
                    ElementsOf(rep[r].elements, "page_break", items[j].key) # {}
                        <=> \E later \in ok : later > j

-----------------------------------------------------------------------------
(* Properties of parse_user_input: the order of the bounds *)

\* Calendar date a is not later than calendar date b.
NotLater(a, b) ==
    \/ a.y < b.y
    \/ a.y = b.y /\ a.m < b.m
    \/ a.y = b.y /\ a.m = b.m /\ a.d <= b.d

\* C22: a date range parse_user_input returns, being the two dates of the
\* text's phrase, has a start that is not later than its end.
C22_StartNotAfterEnd ==
    (Returns("parse_user_input") /\ call.ret.date_range.t = "pair") =>
        LET dates == FindRange(call.args[1].toks, 1)
            dr == call.ret.date_range
        IN  /\ dr.s = IsoText(dates.a.y, dates.a.m, dates.a.d)
            /\ dr.e = IsoText(dates.b.y, dates.b.m, dates.b.d)
            /\ NotLater(dates.a, dates.b)

-----------------------------------------------------------------------------
(* Properties of the report artifact under overlapping requests *)

\* C23: two requests whose reports have been generated have different
\* report paths, and the file a handler attaches to its answer is the
\* document that was generated for its own request.
C23_ReportPathOwnedByRequest ==
    \A r \in Req :
        /\ \A q \in Req \ {r} :
              (hdl[r].report_file # NoneV /\ hdl[q].report_file # NoneV)
                  => hdl[r].report_file # hdl[q].report_file
        /\ \A j \in MessagesOfKind(hdl[r], "analysis_ready") :
              hdl[r].msgs[j].file.content.by = r

-----------------------------------------------------------------------------
(* Properties of generate_pdf_report: the recommendations *)

\* The recommendations written in the section of a point.
RecommendationsOf(els, key) ==
    {els[e].text : e \in ElementsOf(els, "recommendation", key)}

\* The first item of the block of each health label.
HealthBlock ==
    [Poor |-> "Apply fertilizer urgently", Moderate |-> "Apply balanced fertilizer",
     Good |-> "Continue current practices", Excellent |-> "Maintain excellent practices"]

\* C24: in a built report, the block of a health label is in the section of
\* a point only when the point's crop_health is that label; a point whose
\* crop_health is Unknown has none of the blocks.
C24_HealthBlockOnlyForItsLabel ==
    \A r \in Req :
        rep[r].pc = "returned" =>
            \A j \in SuccessfulPoints(rep[r].data.d) :
                LET pd == rep[r].data.d[j].val.d
                    recs == RecommendationsOf(rep[r].elements, rep[r].data.d[j].key)
                IN  \A label \in DOMAIN HealthBlock :
                        HealthBlock[label] \in recs =>
                            /\ "crop_health" \in DOMAIN pd
                            /\ pd.crop_health = label

-----------------------------------------------------------------------------
(* Properties of generate_pdf_report: the two soil-moisture outputs *)

\* The texts of the moisture gauge in the section of a point.
GaugeTexts(els, key) ==
    {els[e].text : e \in ElementsOf(els, "moisture_recommendation", key)}

\* C25: in a built report, for a point with a numeric soil moisture, the
\* recommendations hold the increase-irrigation item exactly when the gauge
\* says the soil is too dry, and the reduce-irrigation item exactly when the
\* gauge says it is too wet.
C25_MoistureOutputsAgree ==
    \A r \in Req :
        rep[r].pc = "returned" =>
            \A j \in SuccessfulPoints(rep[r].data.d) :
                LET pd == rep[r].data.d[j].val.d
                    key == rep[r].data.d[j].key
                    recs == RecommendationsOf(rep[r].elements, key)
                    gauge == GaugeTexts(rep[r].elements, key)
                IN  ("soil_moisture" \in DOMAIN pd /\ pd.soil_moisture.t = "num") =>
                      /\ "Increase irrigation frequency immediately" \in recs
                           <=> "Soil is too dry. Immediate irrigation needed." \in gauge
                      /\ "Reduce irrigation to prevent waterlogging" \in recs
                           <=> "Soil is too wet. Reduce irrigation to prevent waterlogging."
                                   \in gauge

-----------------------------------------------------------------------------
(* Properties of get_analysis_data: the two shapes of a record *)

\* C26: every record of a returned mapping is either a failed record, with
\* the error key and nothing else, or a data record, without the error key
\* and with coordinates, analysis_period and weather; a data record has
\* crop_health exactly when it has ndvi, and its crop_health is Unknown
\* when the ndvi value is not a number.
C26_RecordShapes ==
    \A r \in Req :
        agg[r].pc = "returned" /\ agg[r].coords # <<>> =>
            \A j \in 1..Len(agg[r].ret.d) :
                LET v == agg[r].ret.d[j].val
                    keys == DOMAIN v.d
                IN  /\ IsDict(v)
                    /\ IsErrorRecord(v) => keys = {"error"}
                    /\ IsDataRecord(v) =>
                         /\ {"coordinates", "analysis_period", "weather"} \subseteq keys
                         /\ "crop_health" \in keys <=> "ndvi" \in keys
                         /\ ("ndvi" \in keys /\ ~IsNumber(v.d.ndvi)) =>
                              v.d.crop_health = "Unknown"

\* C26's case: a returned mapping with a data record whose ndvi is None and
\* whose crop_health is Unknown, and a failed record of a point whose
\* moisture step raised after its other fields had been gathered.
C26_Witness ==
    /\ agg["r1"].pc = "returned"
    /\ Len(agg["r1"].ret.d) = 2
    /\ IsDataRecord(agg["r1"].ret.d[1].val)
    /\ "ndvi" \in DOMAIN agg["r1"].ret.d[1].val.d
    /\ agg["r1"].ret.d[1].val.d.ndvi = NoneV
    /\ agg["r1"].ret.d[1].val.d.crop_health = "Unknown"
    /\ agg["r1"].obs[2].ndmi.kind = "raise"
    /\ DOMAIN agg["r1"].ret.d[2].val.d = {"error"}

=============================================================================
